---- MODULE Spec2Model ----
(***************************************************************************)
(* A model of the mash job-lifecycle framework:                            *)
(*   - the replication service (mash/services/replication/service.py):     *)
(*     job table, snapshots, listener bindings, the background scheduler   *)
(*     and its completion callback;                                        *)
(*   - the job store of the service base class                             *)
(*     (mash/services/mash_service.py);                                    *)
(*   - the OBS image build watchdog (mash/services/obs/build_result.py);   *)
(*   - the deprecation job entity (mash/services/deprecation/job.py).      *)
(***************************************************************************)
EXTENDS Integers, Sequences, FiniteSets, Bags, TLC

(***************************************************************************)
(* Bounds of the model.                                                    *)
(***************************************************************************)
MaxDocs == 2          \* job documents delivered on the service queue
MaxListenerMsgs == 2  \* messages delivered on the listener queue
MaxPasses == 3        \* execution passes of one deprecation job
MaxFirings == 2       \* firings of the watchdog's trigger

JobIds == {"1", "2"}

(***************************************************************************)
(* Status levels (mash.services.status_levels) and the job entity.         *)
(***************************************************************************)
PREPARED == "prepared"
RUNNING == "running"
SUCCESS == "success"
FAILED == "failed"
EXCEPTION == "exception"

VARIABLES
    phase,      \* "init" (constructed, post_init not run), "consuming", "stopped"
    jobs,       \* self.jobs: job id -> Job object (NoJob when absent)
    sched,      \* job store of the BackgroundScheduler: ids with a pending entry
    exec,       \* executor instances: per id the running execution, if any
    events,     \* EVENT_JOB_EXECUTED/ERROR events whose callback has not run yet
    files,      \* the job directory: path -> serialized configuration
    bound,      \* routing keys bound to the listener queue
    published,  \* bag of result messages handed to publish_job_result
    notices,    \* number of invalid-config notices published
    credReq,    \* credentials requests published and not yet answered, per id
    acks,       \* listener message number -> number of times it was acked
    nDocs,      \* job documents delivered so far
    nMsgs,      \* listener messages delivered so far
    store,      \* job store: configurations persisted, callbacks of restart_jobs
    dep,        \* the deprecation jobs: job id -> DeprecationJob
    obs,        \* the OBS image build watchdog (OBSImageBuildResult)
    mail,       \* the last call of send_email_notification and what it did
    conc,       \* the two threads of the service, statement by statement
    creds,      \* the key rings and the last encryption and decryption of credentials
    proc,       \* the service process: main(), the broker connection and how it ended
    amqp,       \* start() and stop() of the service: scheduler, consumption, channel, connection
    testjob,    \* GCETestingJob._run_job: the workers of the test regions and the job status
    upl,        \* UploadImage: what was received, the timeout and the position of upload()
    azure,      \* the Azure replication job and the calls it made
    component,  \* the component (a process of its own) this behaviour runs
    last        \* the last operation, its input and what it did

vars == <<phase, jobs, sched, exec, events, files, bound, published, notices,
          credReq, acks, nDocs, nMsgs, store, dep, obs, mail, conc,
          creds,
          proc,
          amqp,
          testjob,
          upl,
          azure,
          component, last>>

(***************************************************************************)
(* Job configurations are dictionaries (functions from keys to values).    *)
(* The file system is a function from paths, as open() is given them, to   *)
(* file contents: an absolute path, or a path relative to the working      *)
(* directory of the process.                                               *)
(***************************************************************************)
\* Defaults.get_job_directory(service_exchange)
JobDirectory == "/var/lib/mash/replication_jobs/"

\* Python's None, as str.format writes it.
None == "None"

\* self.service_exchange of the service.
service_exchange == "replication"

\* MashService.__init__: self.job_directory is the directory of the service.
MashService_job_directory == JobDirectory

\* BaseService.__init__: self.job_directory is what os.makedirs returns.
BaseService_job_directory == None

\* The keys of a configuration in sorted order (json sort_keys=True).
SortedKeys ==
    <<"bogus", "id", "image_description", "job_file", "provider",
      "source_regions", "utctime">>

Put(f, k, v) == [x \in DOMAIN f \cup {k} |-> IF x = k THEN v ELSE f[x]]
Drop(f, k) == [x \in DOMAIN f \ {k} |-> f[x]]

\* JsonFormat.json_message(config): the members of the dictionary written in
\* sorted key order, one (key, value) pair after the other.
json_message(config) ==
    LET ks == SelectSeq(SortedKeys, LAMBDA k : k \in DOMAIN config)
    IN  [i \in 1..Len(ks) |-> <<ks[i], config[ks[i]]>>]

\* json.load(conf_file): the dictionary read back from the written pairs.
json_load(text) ==
    [k \in {text[i][1] : i \in 1..Len(text)} |->
        text[CHOOSE i \in 1..Len(text) : text[i][1] = k][2]]

\* '{0}job-{1}.json'.format(self.job_directory, config['id'])
job_file_name(job_directory, id) == job_directory \o "job-" \o id \o ".json"

\* A persist_job_config that writes the configuration before it sets
\* job_file.
persist_job_config_writes_first(job_directory, fs, config) ==
    LET path == job_file_name(job_directory, config["id"])
    IN  [files |-> Put(fs, path, json_message(config)),
         config |-> Put(config, "job_file", path)]

\* persist_job_config of MashService and of BaseService: sets
\* config['job_file'] and writes the configuration (with job_file) to that
\* file. Returns the new file system and the mutated configuration.
persist_job_config(job_directory, fs, config) ==
    LET path == job_file_name(job_directory, config["id"])
        cfg == Put(config, "job_file", path)
    IN  [files |-> Put(fs, path, json_message(cfg)), config |-> cfg]

\* The names a directory listing can hold.
FileNames ==
    {job_file_name(d, i) : d \in {"", None}, i \in JobIds}

\* os.listdir(job_directory): the names of the files of the directory;
\* os.listdir(None) lists the working directory.
listdir(fs, job_directory) ==
    IF job_directory = None
    THEN {n \in FileNames : n \in DOMAIN fs}
    ELSE {n \in FileNames : (job_directory \o n) \in DOMAIN fs}

\* os.path.join(job_directory, job_file) for a directory that ends in '/'
\* (it raises TypeError when job_directory is None).
path_join(job_directory, job_file) == job_directory \o job_file

\* MashService.remove_file / ReplicationService._remove_job_config:
\* os.remove with every exception swallowed.
_remove_job_config(fs, job_file) == Drop(fs, job_file)

\* os.remove(path): the file is removed; FileNotFoundError when there is no
\* such file, another OSError when the operating system refuses (os_error).
os_remove(fs, path, os_error) ==
    IF path \notin DOMAIN fs THEN [files |-> fs, error |-> "FileNotFoundError"]
    ELSE IF os_error THEN [files |-> fs, error |-> "PermissionError"]
    ELSE [files |-> Drop(fs, path), error |-> ""]

\* A remove_file that lets the exception of os.remove through.
remove_file_raises(fs, config_file, os_error) ==
    LET r == os_remove(fs, config_file, os_error)
    IN  [files |-> r.files, fault |-> r.error]

\* MashService.remove_file(config_file): try os.remove, except Exception: pass.
remove_file(fs, config_file, os_error) ==
    LET r == os_remove(fs, config_file, os_error)
    IN  [files |-> r.files, fault |-> ""]

(***************************************************************************)
(* The job entity of the replication service.                              *)
(***************************************************************************)
NoJob ==
    [id |-> "", utctime |-> "", status |-> "", iteration_count |-> 0,
     credentials |-> FALSE, listener_msg |-> 0, job_file |-> "", attrs |-> {}]

\* Keyword arguments of the job constructor: job_class(**job_config) raises
\* (TypeError) on a missing or an unexpected keyword.
CtorRequired == {"id", "image_description", "provider", "utctime", "source_regions"}
CtorOptional == {"job_file"}

JobCtorAccepts(config) ==
    /\ CtorRequired \subseteq DOMAIN config
    /\ DOMAIN config \subseteq CtorRequired \cup CtorOptional

NewJob(config) ==
    [id |-> config["id"], utctime |-> config["utctime"], status |-> PREPARED,
     iteration_count |-> 0, credentials |-> FALSE, listener_msg |-> 0,
     job_file |-> IF "job_file" \in DOMAIN config THEN config["job_file"] ELSE "",
     attrs |-> {}]

(***************************************************************************)
(* Inputs: job documents (service queue) and testing results (listener     *)
(* queue).                                                                 *)
(***************************************************************************)
ValidConfig(id, utctime, provider) ==
    [id |-> id, image_description |-> "desc", provider |-> provider,
     source_regions |-> "regions", utctime |-> utctime]

\* A message body on the service queue: parsable as JSON or not, with or
\* without the 'replication_job' wrapper key, and the wrapped configuration.
Doc(parsable, wrapper, config) ==
    [parsable |-> parsable, wrapper |-> wrapper, config |-> config]

Docs ==
    {Doc(TRUE, TRUE, ValidConfig(i, u, "EC2")) : i \in JobIds, u \in {"now", "always"}}
    \cup {Doc(TRUE, TRUE, ValidConfig("2", "now", "Azure"))}
    \cup {Doc(FALSE, FALSE, ValidConfig("1", "now", "EC2")),
          Doc(TRUE, FALSE, ValidConfig("1", "now", "EC2"))}
    \cup {Doc(TRUE, TRUE, Drop(ValidConfig("1", "now", "EC2"), k)) : k \in {"id", "source_regions"}}
    \cup {Doc(TRUE, TRUE, Put(ValidConfig("2", "now", "EC2"), "bogus", "x"))}

\* A message body on the listener queue: {"testing_result": {...}}.
ListenerRequired == <<"image_id", "image_name", "source_region">>

LMsg(parsable, id, status, keys) ==
    [parsable |-> parsable, id |-> id, status |-> status, keys |-> keys]

AllAttrs == {"image_id", "image_name", "source_region"}

LMsgs ==
    {LMsg(TRUE, i, st, AllAttrs) : i \in JobIds, st \in {SUCCESS, FAILED}}
    \cup {LMsg(TRUE, "1", SUCCESS, {"image_id", "source_region"}),
          LMsg(FALSE, "", "", {}),
          LMsg(TRUE, "", SUCCESS, AllAttrs)}

(***************************************************************************)
(* The state the handlers of the replication service work on, as a record, *)
(* so that a handler is the composition of the methods it calls.  The      *)
(* fields acked, fault and log describe what the running handler did: the  *)
(* number of acks of the handled message, the exception that ended it and  *)
(* the log records it wrote.                                               *)
(***************************************************************************)
Cur ==
    [jobs |-> jobs, sched |-> sched, exec |-> exec, files |-> files,
     bound |-> bound, published |-> published, notices |-> notices,
     credReq |-> credReq, acks |-> acks,
     acked |-> 0, fault |-> "", log |-> <<>>]

LogRec(level, msg, pass) == [level |-> level, msg |-> msg, pass |-> pass]

Log(s, level, msg, pass) == [s EXCEPT !.log = Append(@, LogRec(level, msg, pass))]

\* BaseService.notify_invalid_config(message.body): publishes an
\* invalid-config notice for the rejected document.
notify_invalid_config(s) == [s EXCEPT !.notices = @ + 1]

\* BaseService.bind_listener_queue(job.id): bind_queue(exchange, id, 'listener').
bind_listener_queue(s, id) == [s EXCEPT !.bound = @ \cup {id}]

\* MashService.unbind_queue(listener_queue, service_exchange, job_id).
unbind_queue(s, id) == [s EXCEPT !.bound = @ \ {id}]

(***************************************************************************)
(* The credentials protocol: signed tokens (JWT).  A token is Malformed or *)
(* a record of its claims, of the secret it is signed with and of whether  *)
(* it carries the 'credentials' key.                                       *)
(***************************************************************************)
Malformed == [sub |-> "", id |-> "", iss |-> "", aud |-> "", secret |-> "",
              credentials |-> FALSE]

\* self.jwt_secret, shared by the services.
jwt_secret == "a-secret"

\* BaseService.get_credential_request(job_id): the signed request token.
get_credential_request(job_id) ==
    [sub |-> "credentials_request", id |-> job_id, iss |-> service_exchange,
     aud |-> "credentials", secret |-> jwt_secret, credentials |-> FALSE]

\* The message publish_credentials_request hands to _publish.
credentials_request_message(job_id) ==
    [exchange |-> "credentials",
     routing_key |-> "request." \o service_exchange,
     body |-> get_credential_request(job_id)]

\* The response the credentials service publishes for a request.
credentials_response(request) ==
    [sub |-> "credentials_response", id |-> request.id, iss |-> "credentials",
     aud |-> request.iss, secret |-> request.secret, credentials |-> TRUE]

\* jwt.decode(token, secret, issuer=..., audience=...): the signature, the
\* issuer and the audience are validated; anything else raises.
jwt_decode(token, secret, issuer, audience) ==
    /\ token # Malformed
    /\ token.secret = secret
    /\ token.iss = issuer
    /\ token.aud = audience

\* BaseService.decode_credentials: jwt.decode with issuer 'credentials' and
\* audience self.service_exchange; a token that does not validate, or a
\* payload without the 'credentials' key, is logged as an error and yields
\* no payload.
decode_credentials(s, token) ==
    IF ~jwt_decode(token, jwt_secret, "credentials", service_exchange)
    THEN [s |-> Log(s, "error", "invalid credentials response token", 0),
          payload |-> None]
    ELSE IF ~token.credentials
    THEN [s |-> Log(s, "error", "credentials key must be in credentials message", 0),
          payload |-> None]
    ELSE [s |-> s, payload |-> token.id]

\* BaseService.publish_credentials_request(job.id).
publish_credentials_request(s, id) == [s EXCEPT !.credReq[id] = @ + 1]

\* ReplicationService._get_status_message: the result carries id and status.
_get_status_message(job) == [id |-> job.id, status |-> job.status]

\* A _publish_message that loses the message.
_publish_message_lost(s, job) == s

\* ReplicationService._publish_message: the message is handed to
\* publish_job_result('publisher', job.id, message); an AMQPError of the
\* broker is logged as a warning by the code and is not modelled.
_publish_message(s, job) ==
    [s EXCEPT !.published = @ (+) SetToBag({_get_status_message(job)})]

(***************************************************************************)
(* The BackgroundScheduler (apscheduler), as the service uses it.          *)
(***************************************************************************)
\* add_job(..., id=job_id) raises ConflictingIdError when the job store
\* already holds an entry with that id.
ConflictingId(jobstore, job_id) == job_id \in jobstore

\* max_instances=1: the executor raises MaxInstancesReachedError, and the
\* firing is skipped, when that many instances of the job id are running.
max_instances == 1

\* An executor that never refuses an instance.
MaxInstancesReached_never(instances) == FALSE

MaxInstancesReached(instances) == Len(instances) >= max_instances

\* A _schedule_job that lets ConflictingIdError out.
_schedule_job_raises(s, job_id) ==
    IF ConflictingId(s.sched, job_id)
    THEN [s EXCEPT !.fault = "ConflictingIdError"]
    ELSE [s EXCEPT !.sched = @ \cup {job_id}]

\* ReplicationService._schedule_job
_schedule_job(s, job_id) ==
    IF ConflictingId(s.sched, job_id)
    THEN Log(s, "warning", "already running", 0)
    ELSE [s EXCEPT !.sched = @ \cup {job_id}]

\* scheduler.remove_job(job_id): JobLookupError (passed) when there is none.
remove_job(jobstore, job_id) == jobstore \ {job_id}

\* An execution runs on a Job object: the one in the job table ("shared")
\* or one that was removed from the table while it ran ("orphan").
Orphaned(instances, job) ==
    [i \in 1..Len(instances) |->
        IF instances[i].state = "shared"
        THEN [state |-> "orphan", job |-> job]
        ELSE instances[i]]

\* A _delete_job that leaves the routing key of the job bound.
_delete_job_keeps_binding(s, job_id) ==
    IF s.jobs[job_id] # NoJob
    THEN [s EXCEPT !.sched = remove_job(@, job_id),
                   !.jobs[job_id] = NoJob,
                   !.exec[job_id] = Orphaned(@, s.jobs[job_id]),
                   !.files = _remove_job_config(@, s.jobs[job_id].job_file)]
    ELSE s

\* ReplicationService._delete_job
_delete_job(s, job_id) ==
    IF s.jobs[job_id] # NoJob
    THEN LET job == s.jobs[job_id]
             s1 == [s EXCEPT !.sched = remove_job(@, job_id)]
             s2 == Log(s1, "info", "deleting job", 0)
             s3 == [s2 EXCEPT !.jobs[job_id] = NoJob,
                              !.exec[job_id] = Orphaned(@, job)]
             s4 == unbind_queue(s3, job_id)
         IN  [s4 EXCEPT !.files = _remove_job_config(@, job.job_file)]
    ELSE Log(s, "warning", "job deletion failed", 0)

\* A _cleanup_job that reports the failure and keeps the job.
_cleanup_job_keeps(s, job_id, status) ==
    LET s1 == [s EXCEPT !.jobs[job_id].status = status]
    IN  _publish_message(Log(s1, "warning", "failed upstream", 0), s1.jobs[job_id])

\* ReplicationService._cleanup_job
_cleanup_job(s, job_id, status) ==
    LET s1 == [s EXCEPT !.jobs[job_id].status = status]
        job == s1.jobs[job_id]
        s2 == Log(s1, "warning", "failed upstream", 0)
        s3 == _delete_job(s2, job_id)
    IN  _publish_message(s3, job)

\* ReplicationService._create_job
_create_job(s, job_config) ==
    IF ~JobCtorAccepts(job_config)
    THEN Log(s, "exception", "invalid job configuration", 0)
    ELSE LET job == NewJob(job_config)
             p == persist_job_config(BaseService_job_directory, s.files, job_config)
             stored == "job_file" \in DOMAIN job_config
             s1 == [s EXCEPT !.jobs[job.id] =
                                 IF stored THEN job
                                 ELSE [job EXCEPT !.job_file = p.config["job_file"]],
                             !.files = IF stored THEN @ ELSE p.files]
             s2 == bind_listener_queue(s1, job.id)
         IN  Log(s2, "info", "job queued", 0)

\* An _add_job that creates the job whether or not the id is queued.
_add_job_replaces(s, job_config) ==
    IF job_config["provider"] = "EC2"
    THEN _create_job(s, job_config)
    ELSE Log(s, "exception", "provider not supported", 0)

\* ReplicationService._add_job
_add_job(s, job_config) ==
    LET job_id == job_config["id"]
        provider == job_config["provider"]
    IN  IF s.jobs[job_id] # NoJob
        THEN Log(s, "warning", "job already queued", 0)
        ELSE IF provider = "EC2"
        THEN _create_job(s, job_config)
        ELSE Log(s, "exception", "provider not supported", 0)

\* ReplicationService._validate_job_config
required == <<"id", "image_description", "provider", "utctime", "source_regions">>

_validate_job_config(job_config) ==
    \A i \in 1..Len(required) : required[i] \in DOMAIN job_config

\* A _handle_service_message that acknowledges a rejected document
\* without a notice.
_handle_service_message_silent(s, message) ==
    LET s1 ==
            IF message.parsable /\ message.wrapper /\ _validate_job_config(message.config)
            THEN _add_job(s, message.config)
            ELSE Log(s, "error", "invalid job config file", 0)
    IN  [s1 EXCEPT !.acked = @ + 1]

\* ReplicationService._handle_service_message
_handle_service_message(s, message) ==
    LET s1 ==
            IF ~message.parsable
            THEN notify_invalid_config(Log(s, "error", "invalid job config file", 0))
            ELSE IF message.wrapper
            THEN IF ~_validate_job_config(message.config)
                 THEN notify_invalid_config(Log(s, "error", "attribute required", 0))
                 ELSE _add_job(s, message.config)
            ELSE notify_invalid_config(Log(s, "error", "replication_job key missing", 0))
    IN  [s1 EXCEPT !.acked = @ + 1]

\* The attributes _validate_listener_msg sets on the job from a testing
\* result with upstream status success: the required ones in order, up to
\* the first that is missing.
AttrsSet(keys) ==
    LET missing == {i \in 1..Len(ListenerRequired) : ListenerRequired[i] \notin keys}
        stop == IF missing = {} THEN Len(ListenerRequired) + 1
                ELSE CHOOSE i \in missing : \A j \in missing : i <= j
    IN  {ListenerRequired[i] : i \in 1..(stop - 1)}

\* ReplicationService._validate_listener_msg: the state after validation
\* and the id of the job the message is accepted for ("" when rejected).
_validate_listener_msg(s, message) ==
    IF ~message.parsable
    THEN [s |-> Log(s, "error", "invalid testing result", 0), job |-> ""]
    ELSE IF message.id = ""
    THEN [s |-> Log(s, "error", "id is required", 0), job |-> ""]
    ELSE IF s.jobs[message.id] = NoJob
    THEN [s |-> Log(s, "error", "invalid job id", 0), job |-> ""]
    ELSE IF message.status # SUCCESS
    THEN [s |-> _cleanup_job(s, message.id, message.status), job |-> ""]
    ELSE LET s1 == [s EXCEPT !.jobs[message.id].attrs = @ \cup AttrsSet(message.keys)]
         IN  IF AllAttrs \subseteq message.keys
             THEN [s |-> s1, job |-> message.id]
             ELSE [s |-> Log(s1, "error", "attribute required", 0), job |-> ""]

\* ReplicationService._handle_listener_message; m is the number of the
\* delivered message (the handle kept in job.listener_msg).
_handle_listener_message(s, m, message) ==
    LET v == _validate_listener_msg(s, message)
    IN  IF v.job # ""
        THEN LET s1 == [v.s EXCEPT !.jobs[v.job].listener_msg = m]
             IN  IF s1.jobs[v.job].credentials
                 THEN _schedule_job(s1, v.job)
                 ELSE publish_credentials_request(s1, v.job)
        ELSE [v.s EXCEPT !.acks[m] = @ + 1, !.acked = @ + 1]

\* ReplicationService._handle_credentials_response for a response that
\* decodes to job id `id`: jobs.get(id) is None for an unknown id and the
\* assignment of job.credentials then raises AttributeError.
_handle_credentials_response(s, id) ==
    IF s.jobs[id] = NoJob
    THEN [s EXCEPT !.fault = "AttributeError"]
    ELSE LET s1 == [s EXCEPT !.jobs[id].credentials = TRUE]
             s2 == _schedule_job(s1, id)
         IN  [s2 EXCEPT !.acked = @ + 1]

\* A handler that takes the job id of any well-formed token without
\* validating the token.
credentials_message_unchecked(s, token) ==
    IF token = Malformed
    THEN [s EXCEPT !.fault = "TypeError"]
    ELSE _handle_credentials_response(s, token.id)

\* ReplicationService._handle_credentials_response from the delivered
\* message on: payload = self.decode_credentials(token['jwt_token']), then
\* payload['id'] and payload['credentials'] are read, which raises
\* TypeError when there is no payload.
credentials_message(s, token) ==
    LET d == decode_credentials(s, token)
    IN  IF d.payload = None
        THEN [d.s EXCEPT !.fault = "TypeError"]
        ELSE _handle_credentials_response(d.s, d.payload)

\* The job function ReplicationService._replicate_image started by the
\* executor: job = self.jobs[job_id]; job.replicate_image().  The execution
\* entry point increments iteration_count, then the provider logic runs and
\* sets the status (finish_execution).
replicate_image(job) ==
    [job EXCEPT !.iteration_count = @ + 1]

\* The scheduler processes the due entry of job_id: the entry of a 'date'
\* trigger is removed from the job store, and the job function is submitted
\* to the executor unless max_instances instances of the id are running.
process_due_job(s, job_id) ==
    LET s1 == [s EXCEPT !.sched = remove_job(@, job_id)]
    IN  IF MaxInstancesReached(s.exec[job_id])
        THEN Log(s1, "warning", "execution skipped", 0)
        ELSE IF s.jobs[job_id] = NoJob
        THEN [s1 EXCEPT !.fault = "KeyError"]
        ELSE [s1 EXCEPT !.jobs[job_id] = replicate_image(@),
                        !.exec[job_id] = Append(@, [state |-> "shared", job |-> NoJob])]

RemoveAt(seq, i) == [j \in 1..(Len(seq) - 1) |-> IF j < i THEN seq[j] ELSE seq[j + 1]]

\* The i-th running execution of job_id ends: the provider logic set the
\* status (success or failed) or raised; the executor releases the instance.
finish_execution(s, job_id, i, outcome) ==
    LET e == s.exec[job_id][i]
        s1 == IF outcome = "raise" THEN s
              ELSE IF e.state = "shared"
              THEN [s EXCEPT !.jobs[job_id].status = outcome]
              ELSE s
    IN  [s1 EXCEPT !.exec[job_id] = RemoveAt(@, i)]

\* A completion callback that deletes every job, recurring or not.
_process_replication_result_deletes(s, job_id, exception) ==
    IF s.jobs[job_id] = NoJob
    THEN [s EXCEPT !.fault = "KeyError"]
    ELSE _publish_message(_delete_job(s, job_id), s.jobs[job_id])

\* ReplicationService._process_replication_result(event)
_process_replication_result(s, job_id, exception) ==
    IF s.jobs[job_id] = NoJob
    THEN [s EXCEPT !.fault = "KeyError"]
    ELSE LET job0 == s.jobs[job_id]
             once == job0.utctime # "always"
             s1 == IF once THEN _delete_job(s, job_id) ELSE s
             job == IF exception THEN [job0 EXCEPT !.status = EXCEPTION] ELSE job0
             \* job.status = EXCEPTION changes the object wherever it lives
             s2 == IF once
                   THEN [s1 EXCEPT !.exec[job_id] =
                            [i \in 1..Len(@) |->
                                IF s.exec[job_id][i].state = "shared"
                                THEN [state |-> "orphan", job |-> job]
                                ELSE @[i]]]
                   ELSE [s1 EXCEPT !.jobs[job_id] = job]
             s3 == IF exception
                   THEN Log(s2, "error", "exception replicating image", job.iteration_count)
                   ELSE IF job.status = SUCCESS
                   THEN Log(s2, "info", "publishing successful", job.iteration_count)
                   ELSE Log(s2, "error", "error replicating image", job.iteration_count)
             s4 == IF once \/ job.status = SUCCESS
                   THEN _publish_message(s3, job)
                   ELSE s3
         IN  IF job.listener_msg = 0
             THEN [s4 EXCEPT !.fault = "AttributeError"]
             ELSE [s4 EXCEPT !.acks[job.listener_msg] = @ + 1]

\* A callback that records the configuration it is called with (the mock
\* callback of the unit test of restart_jobs).
RecordCall(s, job_config) == [s EXCEPT !.calls = Append(@, job_config)]

\* callback(job_config) for the callbacks restart_jobs is given: the bound
\* method self._add_job, or the recording callback.
Call(callback, s, job_config) ==
    IF callback = "_add_job"
    THEN _add_job(s, job_config)
    ELSE RecordCall(s, job_config)

\* restart_jobs(callback) of MashService and of BaseService: every file
\* of os.listdir(self.job_directory), in no particular order, is opened as
\* os.path.join(self.job_directory, job_file), loaded and handed to the
\* callback.  job_files is what is left of the listing.
RECURSIVE restart_jobs(_, _, _, _)
restart_jobs(callback, job_directory, s, job_files) ==
    IF job_files = {} THEN s
    ELSE IF job_directory = None
    THEN [s EXCEPT !.fault = "TypeError"]
    ELSE LET job_file == CHOOSE f \in job_files : TRUE
             job_config == json_load(s.files[path_join(job_directory, job_file)])
         IN  restart_jobs(callback, job_directory, Call(callback, s, job_config),
                          job_files \ {job_file})

(***************************************************************************)
(* The deprecation job entity.                                             *)
(***************************************************************************)
UNKOWN == "unknown"

NoDeprecationJob == [id |-> "", iteration_count |-> 0, status |-> "", passes |-> 0]

\* DeprecationJob.__init__; the field passes is not one of the object: it
\* counts the calls of deprecate_image (see DeprecateImage).
DeprecationJob(id) ==
    [id |-> id, iteration_count |-> 0, status |-> UNKOWN, passes |-> 0]

\* A deprecate_image that counts a pass only when _deprecate() returns.
deprecate_image_counts_after(job, outcome) ==
    IF outcome = "raise" THEN job
    ELSE [job EXCEPT !.iteration_count = @ + 1, !.status = SUCCESS]

\* DeprecationJob.deprecate_image: the counter is incremented, then
\* _deprecate() runs: it sets the status to success (AzureDeprecationJob)
\* or raises (NotImplementedError of the base class).
deprecate_image(job, outcome) ==
    LET job1 == [job EXCEPT !.iteration_count = @ + 1]
    IN  IF outcome = "raise" THEN job1 ELSE [job1 EXCEPT !.status = SUCCESS]

(***************************************************************************)
(* The OBS image build watchdog: OBSImageBuildResult.                      *)
(***************************************************************************)
\* The job's conditions: an image version condition and a package condition.
ImageCondition == "1.42.1"

NoWatchdog ==
    [state |-> "none", job_nonstop |-> FALSE, job_status |-> "",
     version |-> "", conditions |-> <<>>, errors |-> {},
     packages_checksum |-> "",
     lock_set_by_this_instance |-> FALSE, entry |-> FALSE, passes |-> <<>>,
     submit_events |-> 0, job_file |-> FALSE, retired |-> FALSE,
     pkg_lock |-> "none", fired |-> 0, skipped |-> 0, raised |-> ""]

\* A _log_error that reports the error as an exception status.
_log_error_exception(o, message) ==
    [o EXCEPT !.errors = @ \cup {message}, !.job_status = EXCEPTION]

\* OBSImageBuildResult._log_error
_log_error(o, message) ==
    [o EXCEPT !.errors = @ \cup {message}, !.job_status = FAILED]

\* OBSImageBuildResult._init_status (of image_status, the entries name and
\* image_source are left out: nothing is decided on them).
_init_status(conditions) ==
    [job_status |-> PREPARED,
     packages_checksum |-> "unknown", version |-> "unknown",
     conditions |-> [i \in 1..Len(conditions) |-> "None"], errors |-> {}]

\* OBSImageBuildResult.__init__; pkg_lock is the lock of the package in the
\* build service ("none", or who set it), config_ok whether
\* osc.conf.get_config() succeeded.
OBSImageBuildResult(conditions, pkg_lock, config_ok) ==
    LET st == _init_status(conditions)
        o == [NoWatchdog EXCEPT !.state = "new",
                                !.job_status = st.job_status,
                                !.packages_checksum = st.packages_checksum,
                                !.version = st.version,
                                !.conditions = st.conditions,
                                !.errors = st.errors,
                                !.job_file = TRUE,
                                !.pkg_lock = pkg_lock]
    IN  IF config_ok THEN o ELSE _log_error(o, "reading osc config failed")

\* OBSImageBuildResult.start_watchdog: an 'interval' job with
\* max_instances=1 (nonstop) or a 'date' job is added and the scheduler
\* started.
start_watchdog(o, nonstop) ==
    [o EXCEPT !.state = "started", !.job_nonstop = nonstop, !.entry = TRUE]

\* self.job.remove(): AttributeError when start_watchdog has not set
\* self.job, JobLookupError when the scheduler has no entry of the job (a
\* 'date' job that ran, a job removed before), else the entry is removed.
job_remove(o) ==
    IF o.state # "started" THEN [o |-> o, error |-> "AttributeError"]
    ELSE IF ~o.entry THEN [o |-> o, error |-> "JobLookupError"]
    ELSE [o |-> [o EXCEPT !.entry = FALSE], error |-> ""]

\* A stop_watchdog without the try block.
stop_watchdog_unguarded(o) ==
    LET r == job_remove(o) IN [r.o EXCEPT !.raised = r.error]

\* OBSImageBuildResult.stop_watchdog: job.remove(), any exception passed.
stop_watchdog(o) ==
    LET r == job_remove(o) IN [r.o EXCEPT !.raised = ""]

\* OBSImageBuildResult._job_submit_event
_job_submit_event(o) ==
    IF ~o.job_nonstop THEN [o EXCEPT !.job_status = "oneshot"] ELSE o

\* OBSImageBuildResult._job_skipped_event
_job_skipped_event(o) == o

\* The scheduler fires the trigger of the watchdog's job: the entry of a
\* 'date' trigger is removed, the one of an 'interval' trigger stays; the
\* job function is submitted (EVENT_JOB_SUBMITTED) unless max_instances
\* instances are running (EVENT_JOB_MAX_INSTANCES: the firing is skipped).
\* A scheduler that keeps a firing it cannot run now and runs it as well.
fire_trigger_backlog(o) ==
    [o EXCEPT !.fired = @ + 1, !.entry = o.job_nonstop,
              !.passes = Append(@, [pc |-> "start", checksum |-> ""]),
              !.submit_events = @ + 1]

\* fired and skipped count the firings and the EVENT_JOB_MAX_INSTANCES
\* events of the scheduler.
fire_trigger(o) ==
    LET o1 == [o EXCEPT !.fired = @ + 1, !.entry = o.job_nonstop]
    IN  IF MaxInstancesReached(o.passes)
        THEN _job_skipped_event([o1 EXCEPT !.skipped = @ + 1])
        ELSE [o1 EXCEPT !.passes = Append(@, [pc |-> "start", checksum |-> ""]),
                        !.submit_events = @ + 1]

\* OBSImageBuildResult._lock; result is "ok" or "error" (meta_exists or
\* edit_meta raised).
_lock(o, result) ==
    IF result = "error"
    THEN [o |-> _log_error(o, "lock failed"), locked |-> FALSE]
    ELSE IF o.pkg_lock = "none"
    THEN [o |-> [o EXCEPT !.pkg_lock = "watchdog", !.lock_set_by_this_instance = TRUE],
          locked |-> TRUE]
    ELSE [o |-> o, locked |-> TRUE]

\* OBSImageBuildResult._unlock; result is "ok" or "error" (unlock_package
\* raised).
_unlock(o, result) ==
    IF o.lock_set_by_this_instance
    THEN IF result = "ok"
         THEN [o EXCEPT !.pkg_lock = "none"]
         ELSE _log_error(o, "unlock failed")
    ELSE o

EndPass(o, i) == [o EXCEPT !.passes = RemoveAt(@, i)]

\* The handler of _update_image_status: except MashError.
except_MashError(o, i, unlock_result, message) ==
    EndPass(_log_error(_unlock(o, unlock_result), message), i)

\* A pass that leaves the status alone when it has the lock.
pass_lock_keeps_status(o, i, lock_result, unlock_result) ==
    IF lock_result = "error"
    THEN EndPass(_unlock(_log_error(o, "lock failed"), unlock_result), i)
    ELSE [o EXCEPT !.passes[i].pc = "locked"]

\* _update_image_status up to job_status = 'running'.
pass_lock(o, i, lock_result, unlock_result) ==
    LET o1 == IF o.job_nonstop THEN [o EXCEPT !.errors = {}] ELSE o
        l == _lock(o1, lock_result)
    IN  IF ~l.locked
        THEN EndPass(_unlock(l.o, unlock_result), i)
        ELSE [l.o EXCEPT !.job_status = RUNNING, !.passes[i].pc = "locked"]

\* _lookup_image_packages_metadata and the evaluation of the conditions.
\* lookup: "mash_error" (MashOBSLookupError), "crash" (another exception,
\* which ends the job function), "none" (no .sha256 binary), "bad_name"
\* (unexpected image name) or the version found; package: the result of
\* _lookup_package, or "raise" (MashVersionExpressionError).
pass_lookup(o, i, lookup, package, checksum, unlock_result) ==
    IF lookup = "mash_error"
    THEN except_MashError(o, i, unlock_result, "MashOBSLookupError")
    ELSE IF lookup = "crash"
    THEN EndPass(o, i)
    ELSE LET o1 == IF lookup = "none" THEN o
                   ELSE IF lookup = "bad_name"
                   THEN _log_error([o EXCEPT !.version = "unknown"],
                                   "unexpected image name format")
                   ELSE [o EXCEPT !.version = lookup]
             o2 == IF o1.version = "unknown"
                   THEN _log_error(o1, "no image binary found")
                   ELSE o1
             image == IF o2.version = ImageCondition THEN "True" ELSE "False"
             o3 == IF Len(o2.conditions) > 0
                   THEN [o2 EXCEPT !.conditions[1] = image]
                   ELSE o2
         IN  IF Len(o3.conditions) > 1 /\ package = "raise"
             THEN except_MashError(o3, i, unlock_result, "MashVersionExpressionError")
             ELSE [o3 EXCEPT !.conditions =
                                 IF Len(@) > 1 THEN [@ EXCEPT ![2] = package] ELSE @,
                             !.passes[i] = [pc |-> "looked", checksum |-> checksum]]

\* OBSImageBuildResult._image_conditions_complied
_image_conditions_complied(o) ==
    IF o.version = "unknown" THEN FALSE
    ELSE \A c \in 1..Len(o.conditions) : o.conditions[c] = "True"

\* _update_image_status from the conditions check to the final job_status;
\* download is "ok", "raise" (MashImageDownloadError of get_image) or
\* "crash" (another exception of the digest of the packages, which ends the
\* job function).
pass_check(o, i, download, unlock_result) ==
    LET checksum == o.passes[i].checksum
        o1 == [o EXCEPT !.passes[i].pc = "checked"]
    IN  IF _image_conditions_complied(o)
        THEN IF download = "crash"
             THEN EndPass(o, i)
             ELSE IF checksum # o.packages_checksum /\ download = "raise"
             THEN except_MashError(
                      [o EXCEPT !.packages_checksum = "unknown"],
                      i, unlock_result, "MashImageDownloadError")
             ELSE [o1 EXCEPT !.packages_checksum = checksum,
                             !.job_status = SUCCESS]
        ELSE IF o.job_status # SUCCESS
        THEN [o1 EXCEPT !.job_status = FAILED]
        ELSE o1

\* _update_image_status: self._unlock() after the status is set.
pass_unlock(o, i, unlock_result) ==
    LET o1 == _unlock(o, unlock_result)
    IN  [o1 EXCEPT !.passes[i].pc = IF o.job_nonstop THEN "waiting" ELSE "retiring"]

\* OBSImageBuildResult._retire_job; result "ok", "raise_remove" (os.remove
\* raised) or "raise_dump" (writing the pickle raised).
_retire_job(o, result) ==
    IF result = "raise_remove" THEN o
    ELSE IF result = "raise_dump" THEN [o EXCEPT !.job_file = FALSE]
    ELSE [o EXCEPT !.job_file = FALSE, !.retired = TRUE]

\* _update_image_status: _wait_for_new_image() of a nonstop job returns or
\* raises MashOBSResultError; _retire_job() of a one-shot job returns or
\* raises MashJobRetireError.
pass_end(o, i, result, unlock_result) ==
    IF o.job_nonstop
    THEN IF result = "ok"
         THEN EndPass(o, i)
         ELSE except_MashError(o, i, unlock_result, "MashOBSResultError")
    ELSE IF result = "ok"
         THEN EndPass(_retire_job(o, result), i)
         ELSE except_MashError(_retire_job(o, result), i, unlock_result,
                               "MashJobRetireError")

(***************************************************************************)
(* The notification policy of the service base class (MashService).        *)
(***************************************************************************)
\* Python's truth value of a notification_email: None and '' are false.
Truthy(value) == value \notin {None, ""}

\* A _should_notify that does not look at the email.
_should_notify_any_email(notification_email, notification_type, utctime, status, last_service) ==
    \/ status # SUCCESS
    \/ (notification_type = "periodic" /\ utctime # "always")
    \/ (last_service = service_exchange /\ utctime # "always")

\* MashService._should_notify
_should_notify(notification_email, notification_type, utctime, status, last_service) ==
    IF ~Truthy(notification_email) THEN FALSE
    ELSE IF status # SUCCESS THEN TRUE
    ELSE IF notification_type = "periodic" /\ utctime # "always" THEN TRUE
    ELSE IF last_service = service_exchange /\ utctime # "always" THEN TRUE
    ELSE FALSE

NoMail ==
    [email |-> "", type |-> "", utctime |-> "", status |-> "", last_service |-> "",
     notify |-> FALSE, sent |-> FALSE, warned |-> FALSE, fault |-> "", smtp |-> None]

\* The smtp server and the configuration of the service: the step of the
\* transport that raises ("" when none does) and whether smtp_user and
\* smtp_pass are configured.
SmtpServers == [fails : {"", "connect", "login", "send"}, auth : BOOLEAN]

\* A send_email without the try block.
send_email_raises(smtp) ==
    IF smtp.fails = "connect" \/ (smtp.fails = "login" /\ smtp.auth) \/ smtp.fails = "send"
    THEN [sent |-> FALSE, warned |-> FALSE, fault |-> "SMTPException"]
    ELSE [sent |-> TRUE, warned |-> FALSE, fault |-> ""]

\* MashService.send_email: connect, login when smtp_user and smtp_pass are
\* set, send_message; an exception of any of them is logged as a warning.
send_email(smtp) ==
    IF smtp.fails = "connect" THEN [sent |-> FALSE, warned |-> TRUE, fault |-> ""]
    ELSE IF smtp.auth /\ smtp.fails = "login" THEN [sent |-> FALSE, warned |-> TRUE, fault |-> ""]
    ELSE IF smtp.fails = "send" THEN [sent |-> FALSE, warned |-> TRUE, fault |-> ""]
    ELSE [sent |-> TRUE, warned |-> FALSE, fault |-> ""]

\* MashService.send_email_notification: when _should_notify allows it the
\* content is rendered and handed to send_email.
send_email_notification(notification_email, notification_type, status, utctime, last_service, smtp) ==
    LET notify == _should_notify(notification_email, notification_type, utctime,
                                 status, last_service)
        e == IF notify THEN send_email(smtp)
             ELSE [sent |-> FALSE, warned |-> FALSE, fault |-> ""]
    IN  [email |-> notification_email, type |-> notification_type,
         utctime |-> utctime, status |-> status, last_service |-> last_service,
         notify |-> notify, sent |-> e.sent, warned |-> e.warned,
         fault |-> e.fault, smtp |-> smtp]

(***************************************************************************)
(* The threads of the replication service that use self.jobs, statement by *)
(* statement, for one job id: the consumer thread, which runs the message  *)
(* handlers (channel.start_consuming), and the executor's worker thread,   *)
(* which runs the job function and then dispatches the completion event to *)
(* _process_replication_result.  No statement of either takes a lock.      *)
(* table is the entry of the id in self.jobs: "" when absent, else the     *)
(* utctime of the job.  handler and callback are the positions of the two  *)
(* threads.                                                                *)
(***************************************************************************)
NoThreads ==
    [table |-> "", handler |-> "idle", callback |-> "idle",
     running |-> FALSE, event |-> FALSE]

\* _add_job: 'if job_id in self.jobs' (line 68), for a job document with
\* the given utctime.
add_job_check(c, utctime) ==
    IF c.table # "" THEN c
    ELSE [c EXCEPT !.handler = IF utctime = "now" THEN "add_now" ELSE "add_always"]

\* _create_job: 'self.jobs[job.id] = job' (line 109).
create_job_insert(c) ==
    [c EXCEPT !.table = IF c.handler = "add_now" THEN "now" ELSE "always",
              !.handler = "idle"]

\* _validate_listener_msg: 'job = self.jobs.get(job_id)' (line 392) for a
\* testing result whose status is not success; _cleanup_job follows.
validate_listener_msg_get(c) ==
    IF c.table = "" THEN c ELSE [c EXCEPT !.handler = "cleanup"]

\* _delete_job: 'if job_id in self.jobs' (line 128).
delete_job_check(pc, table) == IF table # "" THEN "del_checked" ELSE "idle"

\* _delete_job: 'job = self.jobs[job_id]' (line 136); KeyError when absent.
delete_job_lookup(pc, table) == IF table # "" THEN "del_looked" ELSE "KeyError"

\* _delete_job: 'del self.jobs[job_id]' (line 142); KeyError when absent.
delete_job_del(pc, table) == IF table # "" THEN "idle" ELSE "KeyError"

\* The next statement of _delete_job for a thread at position pc.
delete_job_step(pc, table) ==
    IF pc \in {"cleanup", "got"} THEN delete_job_check(pc, table)
    ELSE IF pc = "del_checked" THEN delete_job_lookup(pc, table)
    ELSE delete_job_del(pc, table)

\* _process_replication_result: 'job = self.jobs[job_id]' (line 272);
\* the KeyError of an absent id ends the callback.
process_result_lookup(c) ==
    [c EXCEPT !.event = FALSE,
              !.callback = IF c.table = "" THEN "idle" ELSE "got"]

\* _process_replication_result: 'if job.utctime != "always"' (line 275) on
\* the job object the callback holds, then _delete_job or the rest of the
\* callback, which does not use self.jobs.
process_result_once(c) == c.callback = "got" /\ c.table # "always"

InDeleteJob == {"cleanup", "got", "del_checked", "del_looked"}

(***************************************************************************)
(* The state machine.  The replication service, the job store exercised on *)
(* its own, the deprecation jobs and the OBS watchdog are separate         *)
(* processes that share no state: a behaviour runs one of them.            *)
(***************************************************************************)
Commit(s) ==
    /\ jobs' = s.jobs
    /\ sched' = s.sched
    /\ exec' = s.exec
    /\ files' = s.files
    /\ bound' = s.bound
    /\ published' = s.published
    /\ notices' = s.notices
    /\ credReq' = s.credReq
    /\ acks' = s.acks

Did(op, id, exception, s) ==
    [op |-> op, id |-> id, exception |-> exception,
     acked |-> s.acked, fault |-> s.fault, log |-> s.log]

(***************************************************************************)
(* The credential envelope: credentials are encrypted with the first key   *)
(* of the key ring and decrypted with any key of the ring (MultiFernet).   *)
(***************************************************************************)
MaxRing == 2

Keys == {"K1", "K2", "K3"}

\* get_encryption_keys_from_file: the keys of the file, one per line.
Rings == UNION {[1..n -> Keys] : n \in 1..MaxRing}

CredentialKeys == <<"access_key_id", "secret_access_key">>

Credentials ==
    {[access_key_id |-> "123456", secret_access_key |-> "654321"],
     [access_key_id |-> "abc"]}

\* json.dumps(credentials).encode(): the members written pair by pair.
credentials_dumps(credentials) ==
    LET ks == SelectSeq(CredentialKeys, LAMBDA k : k \in DOMAIN credentials)
    IN  [i \in 1..Len(ks) |-> <<ks[i], credentials[ks[i]]>>]

\* Fernet(key).encrypt(data): a token only the key opens.
Fernet_encrypt(key, data) == [key |-> key, data |-> data]

\* Fernet(key).decrypt(token): the data, or InvalidToken.
Fernet_decrypt(key, token) ==
    IF token.key = key THEN [error |-> "", data |-> token.data]
    ELSE [error |-> "InvalidToken", data |-> <<>>]

\* MultiFernet(ring).encrypt(data): the first key of the ring encrypts.
MultiFernet_encrypt(ring, data) == Fernet_encrypt(ring[1], data)

\* A MultiFernet that tries the first key of the ring only.
MultiFernet_decrypt_first(ring, token) == Fernet_decrypt(ring[1], token)

\* MultiFernet(ring).decrypt(token): the keys are tried in the order of the
\* ring; the first that opens the token gives the data, none: InvalidToken.
RECURSIVE MultiFernet_decrypt(_, _)
MultiFernet_decrypt(ring, token) ==
    IF ring = <<>> THEN [error |-> "InvalidToken", data |-> <<>>]
    ELSE LET d == Fernet_decrypt(Head(ring), token)
         IN  IF d.error = "" THEN d ELSE MultiFernet_decrypt(Tail(ring), token)

\* BaseService.encrypt_credentials(credentials)
encrypt_credentials(ring, credentials) == MultiFernet_encrypt(ring, credentials)

\* BaseService.decrypt_credentials(credentials): json.loads of the decrypted
\* text; InvalidToken of MultiFernet is raised to the caller.
decrypt_credentials(ring, token) ==
    LET d == MultiFernet_decrypt(ring, token)
    IN  IF d.error # "" THEN [error |-> d.error, payload |-> None]
        ELSE [error |-> "", payload |-> json_load(d.data)]

NoCredentials ==
    [op |-> "", ring |-> <<>>, payload |-> None, token |-> None,
     decrypt_ring |-> <<>>, result |-> None]

(***************************************************************************)
(* The service process: main() constructs the service, whose constructor   *)
(* opens the broker connection, consumes until it is stopped and returns.  *)
(***************************************************************************)
\* The exception classes of mash.mash_exceptions that derive from
\* MashException.
MashExceptions ==
    {"MashException", "MashRabbitConnectionException", "MashLogSetupException",
     "MashDeprecationException"}

\* self.connection / self.channel: None, an open one or a closed one.
NoConnection == [connection |-> None, channel |-> None, raised |-> ""]

\* An _open_connection that lets the exception of amqpstorm through.
_open_connection_unwrapped(c, broker) ==
    IF c.connection \in {None, "closed"} /\ broker = "down"
    THEN [c EXCEPT !.raised = "AMQPConnectionError"]
    ELSE [connection |-> "open", channel |-> "open", raised |-> ""]

\* MashService._open_connection: a missing or closed connection is opened
\* (an exception of Connection(...) is raised as
\* MashRabbitConnectionException), then a missing or closed channel.
_open_connection(c, broker) ==
    IF c.connection \in {None, "closed"} /\ broker = "down"
    THEN [c EXCEPT !.raised = "MashRabbitConnectionException"]
    ELSE [connection |-> "open", channel |-> "open", raised |-> ""]

\* What the service does once it is connected: it returns, or raises.
ServiceOutcomes ==
    {[raised |-> "", code |-> <<>>],
     [raised |-> "MashDeprecationException", code |-> <<>>],
     [raised |-> "Exception", code |-> <<>>],
     [raised |-> "SystemExit", code |-> <<>>],
     [raised |-> "SystemExit", code |-> <<0>>],
     [raised |-> "SystemExit", code |-> <<3>>]}

\* MashService.__init__ as main() sees it: the exception of
\* _open_connection, else what the service does after it.
MashService_init(broker, outcome) ==
    LET c == _open_connection(NoConnection, broker)
    IN  IF c.raised # "" THEN [raised |-> c.raised, code |-> <<>>, conn |-> c]
        ELSE [raised |-> outcome.raised, code |-> outcome.code, conn |-> c]

\* sys.exit(e) for the SystemExit e: the exit status is the code of e, 0
\* when the code is None (the code is <<>> for None, <<n>> for n).
sys_exit(code) == IF code = <<>> THEN 0 ELSE code[1]

\* main() of deprecation_service.py: a MashException is logged and ends the
\* process with status 1, a SystemExit is handed to sys.exit, any other
\* exception is logged and raised again (the interpreter prints the
\* traceback and ends with status 1).
main(broker, outcome) ==
    LET r == MashService_init(broker, outcome)
    IN  IF r.raised = ""
        THEN [exit_status |-> 0, log |-> <<>>, traceback |-> FALSE]
        ELSE IF r.raised \in MashExceptions
        THEN [exit_status |-> 1, log |-> <<LogRec("error", r.raised, 0)>>,
              traceback |-> FALSE]
        ELSE IF r.raised = "SystemExit"
        THEN [exit_status |-> sys_exit(r.code), log |-> <<>>, traceback |-> FALSE]
        ELSE [exit_status |-> 1, log |-> <<LogRec("error", "Unexpected error:", 0)>>,
              traceback |-> TRUE]

NoProcess ==
    [state |-> "new", broker |-> "", raised |-> "", code |-> <<>>,
     exit_status |-> 0, log |-> <<>>, traceback |-> FALSE]

(***************************************************************************)
(* start() and stop() of the replication service.  trace is the sequence   *)
(* of calls made on the scheduler, the channel and the connection since    *)
(* the consuming loop ended.                                               *)
(***************************************************************************)
MaxCloses == 2

\* The service after BaseService.__init__ opened the connection and
\* post_init created the scheduler.
NoService ==
    [state |-> "constructed", scheduler |-> "new", consuming |-> FALSE,
     channel |-> "open", connection |-> "open", trace |-> <<>>,
     raised |-> "", closes |-> 0]

\* ReplicationService.start up to channel.start_consuming().
start(c) == [c EXCEPT !.state = "consuming", !.scheduler = "running", !.consuming = TRUE]

\* BaseService.close_connection: an open channel is closed, an open
\* connection is closed.
close_connection(c) ==
    LET c1 == IF c.channel = "open"
              THEN [c EXCEPT !.channel = "closed", !.trace = Append(@, "channel.close")]
              ELSE c
    IN  IF c1.connection = "open"
        THEN [c1 EXCEPT !.connection = "closed", !.trace = Append(@, "connection.close")]
        ELSE c1

\* A stop that closes the connection before it shuts the scheduler down.
stop_closes_first(c) ==
    LET c1 == close_connection(c)
        c2 == [c1 EXCEPT !.consuming = FALSE, !.trace = Append(@, "channel.stop_consuming")]
    IN  [c2 EXCEPT !.scheduler = "shutdown", !.trace = Append(@, "scheduler.shutdown")]

\* ReplicationService.stop: scheduler.shutdown(), channel.stop_consuming(),
\* close_connection().
stop(c) ==
    LET c1 == [c EXCEPT !.scheduler = "shutdown", !.trace = Append(@, "scheduler.shutdown")]
        c2 == [c1 EXCEPT !.consuming = FALSE, !.trace = Append(@, "channel.stop_consuming")]
    IN  close_connection(c2)

\* What ends channel.start_consuming(): KeyboardInterrupt, an exception of a
\* consumer callback, or the loss of the connection (channel and connection
\* are closed when the exception is raised).
LoopEnds == {"KeyboardInterrupt", "TypeError", "AMQPConnectionError"}

\* The try statement of start(): KeyboardInterrupt is passed over, any other
\* exception is raised again, stop() runs in the finally clause.
start_consuming_ends(c, cause) ==
    LET c1 == IF cause = "AMQPConnectionError"
              THEN [c EXCEPT !.channel = "closed", !.connection = "closed"]
              ELSE c
        c2 == stop(c1)
    IN  [c2 EXCEPT !.state = "stopped",
                   !.raised = IF cause = "KeyboardInterrupt" THEN "" ELSE cause]

(***************************************************************************)
(* GCETestingJob._run_job: one thread per test region runs ipa_test, the   *)
(* threads are joined and the status is computed from their results.  pc   *)
(* is the position of the executor thread that runs the job function.      *)
(***************************************************************************)
Regions == {"us-west1", "us-east1"}

\* self.test_regions in the order the dictionary is iterated.
TestRegions ==
    {<<r>> : r \in Regions}
    \cup {p \in {<<r1, r2>> : r1 \in Regions, r2 \in Regions} : p[1] # p[2]}

NoTestRun ==
    [pc |-> "idle", test_regions |-> <<>>, known |-> {}, next |-> 1,
     started |-> {}, running |-> {}, results |-> <<>>, status |-> "",
     raised |-> "", read |-> "", running_at_read |-> {}]

\* _run_job, lines 72-76: results and jobs are empty, the status is success.
\* known are the regions that self.credentials and self.source_regions hold
\* an entry for.
run_job_begin(test_regions, known) ==
    [NoTestRun EXCEPT !.pc = "loop", !.test_regions = test_regions,
                      !.known = known, !.status = SUCCESS]

\* One iteration of the loop of lines 78-104: the lookups of
\* self.credentials[account] and self.source_regions[region] raise KeyError
\* for a region they do not hold, else the thread of the region is started.
run_job_start_worker(j) ==
    LET region == j.test_regions[j.next]
    IN  IF region \notin j.known
        THEN [j EXCEPT !.pc = "raised", !.raised = "KeyError"]
        ELSE [j EXCEPT !.started = @ \cup {region}, !.running = @ \cup {region},
                       !.next = @ + 1,
                       !.pc = IF j.next = Len(j.test_regions) THEN "join" ELSE "loop"]

\* ipa_test in the thread of a region: it records the status of the region
\* in results and ends; an exception outside its try block ends the thread
\* without a result ("died").
ipa_test(j, region, outcome) ==
    [j EXCEPT !.running = @ \ {region},
              !.results = IF outcome = "died" THEN @
                          ELSE Append(@, [region |-> region, status |-> outcome])]

\* Lines 106-107: job.join() for every started thread returns when the
\* thread has ended (the step is enabled when pc is "joined" in the result).
run_job_join(j) ==
    IF j.running = {} THEN [j EXCEPT !.pc = "joined"] ELSE j

\* Lines 109-125: the status is failed when a region did not succeed.
run_job_status(j) ==
    [j EXCEPT !.pc = "returned",
              !.status = IF \E i \in 1..Len(j.results) : j.results[i].status # SUCCESS
                         THEN FAILED ELSE j.status]

\* The completion callback of the scheduler (EVENT_JOB_EXECUTED or
\* EVENT_JOB_ERROR): the status is set to exception when the job function
\* raised, then the status of the job is read and published.
completion_callback(j) ==
    LET status == IF j.raised # "" THEN EXCEPTION ELSE j.status
    IN  [j EXCEPT !.pc = "done", !.status = status, !.read = status,
                  !.running_at_read = j.running]

(***************************************************************************)
(* UploadImage of the uploader service: a background job consumes the      *)
(* credentials queue and the OBS listener queue of the job, upload() waits *)
(* for both results or for the consuming timeout.                          *)
(***************************************************************************)
MaxSleeps == 2

\* UploadImage('123', 'ec2', ...)
upload_job_id == "123"

csp_name == "ec2"

\* The queues _consume_service_information declares.
obs_listener_queue == "obs.listener_" \o upload_job_id

credentials_queue == "credentials." \o csp_name

NoUpload ==
    [pc |-> "idle", system_image_file |-> None, credentials_token |-> None,
     consuming_timeout_reached |-> FALSE,
     queues |-> {credentials_queue, obs_listener_queue},
     sleeps |-> 0, uploads |-> 0, result |-> ""]

\* UploadImage._obs_job_data: the listener queue of the job is deleted and
\* the image file taken from image_source.
_obs_job_data(u, image) ==
    [u EXCEPT !.queues = @ \ {obs_listener_queue}, !.system_image_file = image]

\* UploadImage._credentials_job_data
_credentials_job_data(u, token) == [u EXCEPT !.credentials_token = token]

\* UploadImage._consuming_timeout
_consuming_timeout(u) == [u EXCEPT !.consuming_timeout_reached = TRUE]

\* An upload() that starts the upload as soon as the image file is there.
upload_eager(u) ==
    IF u.consuming_timeout_reached
    THEN [u EXCEPT !.pc = "returned", !.result = None]
    ELSE IF u.system_image_file # None
    THEN [u EXCEPT !.pc = "returned", !.uploads = @ + 1, !.result = None]
    ELSE [u EXCEPT !.pc = "waiting", !.sleeps = @ + 1]

\* One round of the loop of UploadImage.upload(): it returns None when the
\* consuming timeout was reached, uploads and returns when image file and
\* credentials token are there, else sleeps a second and looks again.
upload(u) ==
    IF u.consuming_timeout_reached
    THEN [u EXCEPT !.pc = "returned", !.result = None]
    ELSE IF u.system_image_file # None /\ u.credentials_token # None
    THEN [u EXCEPT !.pc = "returned", !.uploads = @ + 1, !.result = None]
    ELSE [u EXCEPT !.pc = "waiting", !.sleeps = @ + 1]

(***************************************************************************)
(* AzureReplicationJob: the image blob of every source region is copied to *)
(* classic storage, then the ARM image and the page blob are removed.      *)
(***************************************************************************)
AzureRegions == {"westus", "eastus"}

\* self.replication_source_regions in the order the dictionary is iterated.
ReplicationSourceRegions ==
    {<<r>> : r \in AzureRegions}
    \cup {p \in {<<r1, r2>> : r1 \in AzureRegions, r2 \in AzureRegions} : p[1] # p[2]}

\* The call of a region that raises, if any.
AzureOutcomes == {"ok", "copy_blob_to_classic_storage", "delete_image", "delete_page_blob"}

NoAzureRun ==
    [state |-> "none", replication_source_regions |-> <<>>,
     cleanup_images |-> FALSE, accounts |-> {}, status |-> "", calls |-> <<>>,
     log |-> <<>>, raised |-> "", visited |-> {}]

\* AzureReplicationJob.post_init: cleanup_images is the entry of the job
\* document (<<>> when the document has none), True by default.
AzureReplicationJob_post_init(replication_source_regions, cleanup_images) ==
    [NoAzureRun EXCEPT
        !.state = "new",
        !.replication_source_regions = replication_source_regions,
        !.cleanup_images = IF cleanup_images = <<>> THEN TRUE ELSE cleanup_images[1]]

AzureCall(op, region, raised) == [op |-> op, region |-> region, raised |-> raised]

\* A loop body that removes image and blob before the copy is tried.
replicate_region_removes_first(a, region, outcome) ==
    LET removed == a.calls \o <<AzureCall("delete_image", region, FALSE),
                                AzureCall("delete_page_blob", region, FALSE)>>
        failed == outcome # "ok"
    IN  [a EXCEPT !.visited = @ \cup {region},
                  !.calls = Append(removed,
                                   AzureCall("copy_blob_to_classic_storage", region, failed)),
                  !.status = IF failed THEN FAILED ELSE @]

\* The body of the loop of _run_job, lines 72-119, for one region: the calls
\* made in the try block up to the one that raises, and the except clause.
replicate_region(a, region, outcome) ==
    LET copy == AzureCall("copy_blob_to_classic_storage", region,
                          outcome = "copy_blob_to_classic_storage")
        image == AzureCall("delete_image", region, outcome = "delete_image")
        blob == AzureCall("delete_page_blob", region, outcome = "delete_page_blob")
        copying == Append(a.log, <<"Copying image", region, TRUE>>)
        removing == Append(copying, <<"Removing ARM image and page blob", region, TRUE>>)
        error(log) == Append(log, <<"There was an error copying image blob", region, FALSE>>)
        b == [a EXCEPT !.visited = @ \cup {region}]
    IN  IF copy.raised
        THEN [b EXCEPT !.calls = Append(@, copy), !.log = error(copying),
                       !.status = FAILED]
        ELSE IF ~a.cleanup_images
        THEN [b EXCEPT !.calls = Append(@, copy), !.log = copying]
        ELSE IF image.raised
        THEN [b EXCEPT !.calls = @ \o <<copy, image>>, !.log = error(removing),
                       !.status = FAILED]
        ELSE [b EXCEPT !.calls = @ \o <<copy, image, blob>>,
                       !.log = IF blob.raised THEN error(removing) ELSE removing,
                       !.status = IF blob.raised THEN FAILED ELSE @]

\* The loop of _run_job from the i-th region on: the lookup of
\* self.credentials[reg_info['account']] raises KeyError for an account the
\* credentials do not hold, and the exception leaves _run_job.
RECURSIVE azure_loop(_, _, _)
azure_loop(a, i, outcomes) ==
    IF i > Len(a.replication_source_regions) THEN a
    ELSE LET region == a.replication_source_regions[i]
         IN  IF region \notin a.accounts
             THEN [a EXCEPT !.raised = "KeyError"]
             ELSE azure_loop(replicate_region(a, region, outcomes[i]), i + 1, outcomes)

\* AzureReplicationJob._run_job; accounts are the regions whose account has
\* an entry in self.credentials, outcomes the call that raises per region.
AzureReplicationJob_run_job(a, accounts, outcomes) ==
    azure_loop([a EXCEPT !.state = "ran", !.status = SUCCESS, !.accounts = accounts],
               1, outcomes)

Runs(c) == component \in {"none", c} /\ component' = c

service == <<phase, jobs, sched, exec, events, bound, published, notices,
             credReq, acks, nDocs, nMsgs>>

\* The pending events of a job id, by event.exception and by the utctime of
\* the job whose pass raised the event ("" when the job function found no
\* job to run); the event of the scheduler carries job id and exception,
\* the utctime is kept for the record only.
PassKinds == {"", "now", "always"}

NoEvents == [exc \in BOOLEAN |-> [u \in PassKinds |-> 0]]

\* The snapshots a previous run of a service can have left on disk: the
\* files persist_job_config wrote, with the job directory of the service,
\* for jobs that were accepted.
Snapshot(job_directory, id, utctime) ==
    persist_job_config(job_directory, <<>>, ValidConfig(id, utctime, "EC2"))

Written(job_directory, id, utctime) ==
    job_file_name(job_directory, id) :> Snapshot(job_directory, id, utctime).config

InitialSnapshots ==
    {[files |-> <<>>, written |-> <<>>],
     [files |-> Snapshot(BaseService_job_directory, "1", "now").files
                @@ Snapshot(BaseService_job_directory, "2", "always").files,
      written |-> <<>>],
     [files |-> Snapshot(MashService_job_directory, "1", "now").files,
      written |-> Written(MashService_job_directory, "1", "now")]}

Init ==
    /\ phase = "init"
    /\ jobs = [i \in JobIds |-> NoJob]
    /\ sched = {}
    /\ exec = [i \in JobIds |-> <<>>]
    /\ events = [i \in JobIds |-> NoEvents]
    /\ \E snap \in InitialSnapshots :
          /\ files = snap.files
          /\ store = [written |-> snap.written, calls |-> <<>>]
    /\ bound = {i \in JobIds :
                    job_file_name(BaseService_job_directory, i) \in DOMAIN files}
    /\ published = EmptyBag
    /\ notices = 0
    /\ credReq = [i \in JobIds |-> 0]
    /\ acks = [m \in 1..MaxListenerMsgs |-> 0]
    /\ nDocs = 0
    /\ nMsgs = 0
    /\ dep = [i \in JobIds |-> NoDeprecationJob]
    /\ obs = NoWatchdog
    /\ mail = NoMail
    /\ conc = NoThreads
    /\ creds = NoCredentials
    /\ proc = NoProcess
    /\ amqp = NoService
    /\ testjob = NoTestRun
    /\ upl = NoUpload
    /\ azure = NoAzureRun
    /\ component = "none"
    /\ last = Did("new", "", FALSE, Cur)

\* ReplicationService.post_init: the job table is created empty, the
\* snapshots are replayed through _add_job, then start() consumes.  An
\* exception of restart_jobs ends the constructor: the service never starts.
post_init ==
    /\ Runs("replication")
    /\ phase = "init"
    /\ LET s == restart_jobs("_add_job", BaseService_job_directory, Cur,
                             listdir(files, BaseService_job_directory))
       IN  /\ Commit(s)
           /\ last' = Did("post_init", "", FALSE, s)
           /\ phase' = IF s.fault # "" THEN "stopped" ELSE "consuming"
    /\ UNCHANGED <<azure, upl, testjob, amqp, proc, creds, events, nDocs, nMsgs, store, dep, obs, mail, conc>>

ServiceMessage ==
    /\ Runs("replication")
    /\ phase = "consuming"
    /\ nDocs < MaxDocs
    /\ \E message \in Docs :
          LET s == _handle_service_message(Cur, message)
          IN  /\ Commit(s)
              /\ last' = Did("service_message", "", FALSE, s)
    /\ nDocs' = nDocs + 1
    /\ UNCHANGED <<azure, upl, testjob, amqp, proc, creds, phase, events, nMsgs, store, dep, obs, mail, conc>>

ListenerMessage ==
    /\ Runs("replication")
    /\ phase = "consuming"
    /\ nMsgs < MaxListenerMsgs
    /\ \E message \in LMsgs :
          LET s == _handle_listener_message(Cur, nMsgs + 1, message)
          IN  /\ Commit(s)
              /\ last' = Did("listener_message", message.id, FALSE, s)
    /\ nMsgs' = nMsgs + 1
    /\ UNCHANGED <<azure, upl, testjob, amqp, proc, creds, phase, events, nDocs, store, dep, obs, mail, conc>>

\* The credentials service answers a published request.  An exception in a
\* consumer callback ends start_consuming(): start() runs stop().
CredentialsResponse ==
    /\ Runs("replication")
    /\ phase = "consuming"
    /\ \E id \in JobIds :
          /\ credReq[id] > 0
          /\ LET s == credentials_message(
                          [Cur EXCEPT !.credReq[id] = @ - 1],
                          credentials_response(get_credential_request(id)))
             IN  /\ Commit(s)
                 /\ last' = Did("credentials_response", id, FALSE, s)
                 /\ phase' = IF s.fault # "" THEN "stopped" ELSE phase
    /\ UNCHANGED <<azure, upl, testjob, amqp, proc, creds, events, nDocs, nMsgs, store, dep, obs, mail, conc>>

\* Tokens that are not a valid response for this service: malformed,
\* signed with another secret, of the request direction, addressed to
\* another service, or without the 'credentials' key.
InvalidTokens ==
    {Malformed}
    \cup {[credentials_response(get_credential_request(i)) EXCEPT !.secret = "other"] :
            i \in JobIds}
    \cup {get_credential_request(i) : i \in JobIds}
    \cup {[credentials_response(get_credential_request(i)) EXCEPT !.aud = "testing"] :
            i \in JobIds}
    \cup {[credentials_response(get_credential_request(i)) EXCEPT !.credentials = FALSE] :
            i \in JobIds}

\* The invalid token that is delivered: one of the request direction (the
\* handler treats every token of InvalidTokens alike).
BadTokens == {get_credential_request("1")}

\* A message that is not a valid credentials response arrives on the
\* credentials queue.
BadCredentialsResponse ==
    /\ Runs("replication")
    /\ phase = "consuming"
    /\ \E token \in BadTokens :
          LET s == credentials_message(Cur, token)
          IN  /\ Commit(s)
              /\ last' = Did("credentials_response", token.id, FALSE, s)
              /\ phase' = IF s.fault # "" THEN "stopped" ELSE phase
    /\ UNCHANGED <<azure, upl, testjob, amqp, proc, creds, events, nDocs, nMsgs, store, dep, obs, mail, conc>>

\* The scheduler thread finds the entry of a job due.
StartExecution ==
    /\ Runs("replication")
    /\ phase = "consuming"
    /\ \E id \in sched :
          LET s == process_due_job(Cur, id)
          IN  /\ Commit(s)
              /\ events' = IF s.fault # ""
                           THEN [events EXCEPT ![id][TRUE][""] = @ + 1]
                           ELSE events
              /\ last' = Did("start_execution", id, FALSE, s)
    /\ UNCHANGED <<azure, upl, testjob, amqp, proc, creds, phase, nDocs, nMsgs, store, dep, obs, mail, conc>>

\* The utctime of the job the i-th running execution of id works on.
RanUtctime(id, i) ==
    IF exec[id][i].state = "shared" THEN jobs[id].utctime ELSE exec[id][i].job.utctime

\* A running execution ends and its event is dispatched.
FinishExecution ==
    /\ Runs("replication")
    /\ \E id \in JobIds, outcome \in {SUCCESS, FAILED, "raise"} :
          \E i \in 1..Len(exec[id]) :
             LET s == finish_execution(Cur, id, i, outcome)
             IN  /\ Commit(s)
                 /\ events' = [events EXCEPT
                                  ![id][outcome = "raise"][RanUtctime(id, i)] = @ + 1]
                 /\ last' = Did("finish_execution", id, outcome = "raise", s)
    /\ UNCHANGED <<azure, upl, testjob, amqp, proc, creds, phase, nDocs, nMsgs, store, dep, obs, mail, conc>>

\* The completion callback runs for a dispatched event; an exception it
\* raises is caught and logged by the scheduler's event dispatch.
ProcessResult ==
    /\ Runs("replication")
    /\ \E id \in JobIds, exception \in BOOLEAN, u \in PassKinds :
          /\ events[id][exception][u] > 0
          /\ LET s == _process_replication_result(Cur, id, exception)
             IN  /\ Commit(s)
                 /\ last' = Did("process_result", id, exception, s)
          /\ events' = [events EXCEPT ![id][exception][u] = @ - 1]
    /\ UNCHANGED <<azure, upl, testjob, amqp, proc, creds, phase, nDocs, nMsgs, store, dep, obs, mail, conc>>

(***************************************************************************)
(* The job store on its own: persist_job_config, remove_file, restart_jobs *)
(* with a callback that records the configurations it is called with.      *)
(***************************************************************************)
StoreConfigs ==
    {[id |-> i] : i \in JobIds}
    \cup {ValidConfig(i, u, "EC2") : i \in JobIds, u \in {"now", "always"}}
    \cup {Put(ValidConfig("1", "now", "EC2"), "bogus", "x")}

PersistJobConfig ==
    /\ Runs("store")
    /\ \E config \in StoreConfigs :
          LET p == persist_job_config(MashService_job_directory, files, config)
          IN  /\ files' = p.files
              /\ store' = [written |-> Put(store.written, p.config["job_file"], p.config),
                           calls |-> <<>>]
              /\ last' = Did("persist_job_config", config["id"], FALSE, Cur)
    /\ UNCHANGED <<azure, upl, testjob, amqp, proc, creds, service, mail, conc, dep, obs>>

RemoveFile ==
    /\ Runs("store")
    /\ \E id \in JobIds, os_error \in BOOLEAN :
          LET job_file == job_file_name(MashService_job_directory, id)
              r == remove_file(files, job_file, os_error)
          IN  /\ files' = r.files
              /\ store' = [written |-> IF job_file \in DOMAIN r.files
                                       THEN store.written
                                       ELSE Drop(store.written, job_file),
                           calls |-> <<>>]
              /\ last' = Did("remove_file", id, os_error, [Cur EXCEPT !.fault = r.fault])
    /\ UNCHANGED <<azure, upl, testjob, amqp, proc, creds, service, mail, conc, dep, obs>>

RestartJobs ==
    /\ Runs("store")
    /\ LET s == restart_jobs("RecordCall", MashService_job_directory,
                             [files |-> files, calls |-> <<>>, fault |-> ""],
                             listdir(files, MashService_job_directory))
       IN  store' = [store EXCEPT !.calls = s.calls]
    /\ last' = Did("restart_jobs", "", FALSE, Cur)
    /\ UNCHANGED <<azure, upl, testjob, amqp, proc, creds, service, mail, conc, files, dep, obs>>

(***************************************************************************)
(* The deprecation jobs.                                                   *)
(***************************************************************************)
CreateDeprecationJob ==
    /\ Runs("deprecation")
    /\ \E id \in JobIds :
          /\ dep[id] = NoDeprecationJob
          /\ dep' = [dep EXCEPT ![id] = DeprecationJob(id)]
          /\ last' = Did("deprecation_job", id, FALSE, Cur)
    /\ UNCHANGED <<azure, upl, testjob, amqp, proc, creds, service, mail, conc, files, store, obs>>

DeprecateImage ==
    /\ Runs("deprecation")
    /\ \E id \in JobIds, outcome \in {"return", "raise"} :
          /\ dep[id] # NoDeprecationJob
          /\ dep[id].passes < MaxPasses
          /\ dep' = [dep EXCEPT ![id] = [deprecate_image(@, outcome)
                                             EXCEPT !.passes = dep[id].passes + 1]]
          /\ last' = Did("deprecate_image", id, outcome = "raise", Cur)
    /\ UNCHANGED <<azure, upl, testjob, amqp, proc, creds, service, mail, conc, files, store, obs>>

(***************************************************************************)
(* The OBS watchdog: construction, the scheduler, the steps of a pass of   *)
(* _update_image_status (one per assignment of job_status, which           *)
(* get_image_status reads at any time), and the other users of the build   *)
(* service who lock and unlock the package.                                *)
(***************************************************************************)
Results == {"ok", "error"}

ObsDid(op, exception) ==
    /\ last' = Did(op, "", exception,
                   IF op = "fire_trigger" /\ MaxInstancesReached(obs.passes)
                   THEN Log(Cur, "warning", "execution skipped", 0)
                   ELSE Cur)
    /\ UNCHANGED <<azure, upl, testjob, amqp, proc, creds, service, mail, conc, files, store, dep>>

CreateWatchdog ==
    /\ Runs("obs")
    /\ obs.state = "none"
    /\ \E conditions \in {<<>>, <<"image", "package">>},
          pkg_lock \in {"none", "other"}, config_ok \in BOOLEAN :
          obs' = OBSImageBuildResult(conditions, pkg_lock, config_ok)
    /\ ObsDid("OBSImageBuildResult", FALSE)

StartWatchdog ==
    /\ Runs("obs")
    /\ obs.state = "new"
    /\ \E nonstop \in BOOLEAN : obs' = start_watchdog(obs, nonstop)
    /\ ObsDid("start_watchdog", FALSE)

StopWatchdog ==
    /\ Runs("obs")
    /\ obs.state \in {"new", "started"}
    /\ obs' = stop_watchdog(obs)
    /\ ObsDid("stop_watchdog", FALSE)

FireTrigger ==
    /\ Runs("obs")
    /\ obs.state = "started"
    /\ obs.entry
    /\ obs.fired < MaxFirings
    /\ obs' = fire_trigger(obs)
    /\ ObsDid("fire_trigger", FALSE)

JobSubmitEvent ==
    /\ Runs("obs")
    /\ obs.submit_events > 0
    /\ obs' = _job_submit_event([obs EXCEPT !.submit_events = @ - 1])
    /\ ObsDid("_job_submit_event", FALSE)

PassLock ==
    /\ Runs("obs")
    /\ \E i \in 1..Len(obs.passes), lock_result, unlock_result \in Results :
          /\ obs.passes[i].pc = "start"
          /\ obs' = pass_lock(obs, i, lock_result, unlock_result)
          /\ ObsDid("pass_lock", lock_result = "error")

\* The results of the build service a lookup depends on: the ones the
\* lookup does not get to (the package when the first lookup raised or the
\* job has no package condition, the checksum and the unlock when nothing
\* reads them) are fixed, so that every outcome is drawn once.
LookupDependsOn(o, lookup, package, checksum, unlock_result) ==
    LET raises == lookup \in {"mash_error", "crash"}
        package_read == ~raises /\ Len(o.conditions) > 1
        package_raises == package_read /\ package = "raise"
    IN  /\ package_read \/ package = "True"
        /\ (~raises /\ ~package_raises) \/ checksum = "c1"
        /\ (lookup = "mash_error" \/ package_raises) \/ unlock_result = "ok"

PassLookup ==
    /\ Runs("obs")
    /\ \E i \in 1..Len(obs.passes),
          lookup \in {"mash_error", "crash", "none", "bad_name", "1.42.1", "1.42.2"},
          package \in {"True", "False", "raise"},
          checksum \in {"c1", "c2"}, unlock_result \in Results :
          /\ obs.passes[i].pc = "locked"
          /\ LookupDependsOn(obs, lookup, package, checksum, unlock_result)
          /\ obs' = pass_lookup(obs, i, lookup, package, checksum, unlock_result)
          /\ ObsDid("pass_lookup", lookup \in {"mash_error", "crash"})

PassCheck ==
    /\ Runs("obs")
    /\ \E i \in 1..Len(obs.passes), download \in {"ok", "raise", "crash"},
          unlock_result \in Results :
          /\ obs.passes[i].pc = "looked"
          /\ obs' = pass_check(obs, i, download, unlock_result)
          /\ ObsDid("pass_check", download = "crash")

PassUnlock ==
    /\ Runs("obs")
    /\ \E i \in 1..Len(obs.passes), unlock_result \in Results :
          /\ obs.passes[i].pc = "checked"
          /\ obs' = pass_unlock(obs, i, unlock_result)
          /\ ObsDid("pass_unlock", FALSE)

PassEnd ==
    /\ Runs("obs")
    /\ \E i \in 1..Len(obs.passes),
          result \in {"ok", "raise_remove", "raise_dump"},
          unlock_result \in Results :
          /\ obs.passes[i].pc \in {"waiting", "retiring"}
          /\ obs' = pass_end(obs, i, result, unlock_result)
          /\ ObsDid("pass_end", result # "ok")

\* Another user of the build service locks or unlocks the package.
OtherLocks ==
    /\ Runs("obs")
    /\ obs.state # "none"
    /\ obs.pkg_lock = "none"
    /\ obs' = [obs EXCEPT !.pkg_lock = "other"]
    /\ UNCHANGED <<azure, upl, testjob, amqp, proc, creds, service, mail, conc, files, store, dep, last>>

OtherUnlocks ==
    /\ Runs("obs")
    /\ obs.pkg_lock = "other"
    /\ obs' = [obs EXCEPT !.pkg_lock = "none"]
    /\ UNCHANGED <<azure, upl, testjob, amqp, proc, creds, service, mail, conc, files, store, dep, last>>

(***************************************************************************)
(* The notification policy: a service reports the outcome of a job.        *)
(***************************************************************************)
Emails == {None, "", "a@b"}
NotificationTypes == {"single", "periodic"}
UtcTimes == {"now", "always", "2019-04-28T06:44:50"}
Statuses == {SUCCESS, FAILED, EXCEPTION}
LastServices == {"replication", "publisher"}

\* One call of send_email_notification: the call keeps no state, so one
\* call with every argument covers every call.
SendEmailNotification ==
    /\ Runs("notification")
    /\ mail = NoMail
    /\ \E notification_email \in Emails, notification_type \in NotificationTypes,
          status \in Statuses, utctime \in UtcTimes,
          last_service \in LastServices, smtp \in SmtpServers :
          mail' = send_email_notification(notification_email, notification_type,
                                          status, utctime, last_service, smtp)
    /\ last' = Did("send_email_notification", "", FALSE, Cur)
    /\ UNCHANGED <<azure, upl, testjob, amqp, proc, creds, service, conc, files, store, dep, obs>>

\* One round trip: both functions keep no state, so one encryption and one
\* decryption with every ring cover every call.
EncryptCredentials ==
    /\ Runs("credentials")
    /\ creds.op = ""
    /\ \E ring \in Rings, credentials \in Credentials :
          creds' = [NoCredentials EXCEPT
                       !.op = "encrypt", !.ring = ring, !.payload = credentials,
                       !.token = encrypt_credentials(ring, credentials_dumps(credentials))]
    /\ last' = Did("encrypt_credentials", "", FALSE, Cur)
    /\ UNCHANGED <<azure, upl, testjob, amqp, proc, service, mail, conc, files, store, dep, obs>>

DecryptCredentials ==
    /\ Runs("credentials")
    /\ creds.op = "encrypt"
    /\ \E ring \in Rings :
          creds' = [creds EXCEPT
                       !.op = "decrypt", !.decrypt_ring = ring,
                       !.result = decrypt_credentials(ring, creds.token)]
    /\ last' = Did("decrypt_credentials", "", FALSE, Cur)
    /\ UNCHANGED <<azure, upl, testjob, amqp, proc, service, mail, conc, files, store, dep, obs>>

Main ==
    /\ Runs("main")
    /\ proc.state = "new"
    /\ \E broker \in {"up", "down"}, outcome \in ServiceOutcomes :
          LET r == MashService_init(broker, outcome)
              m == main(broker, outcome)
          IN  proc' = [state |-> "exited", broker |-> broker, raised |-> r.raised,
                       code |-> r.code, exit_status |-> m.exit_status,
                       log |-> m.log, traceback |-> m.traceback]
    /\ last' = Did("main", "", FALSE, Cur)
    /\ UNCHANGED <<azure, upl, testjob, amqp, creds, service, mail, conc, files, store, dep, obs>>

ShutdownDid(op) ==
    /\ last' = Did(op, "", FALSE, Cur)
    /\ UNCHANGED <<azure, upl, testjob, proc, creds, service, mail, conc, files, store, dep, obs>>

Start ==
    /\ Runs("shutdown")
    /\ amqp.state = "constructed"
    /\ amqp' = start(amqp)
    /\ ShutdownDid("start")

StartConsumingEnds ==
    /\ Runs("shutdown")
    /\ amqp.state = "consuming"
    /\ \E cause \in LoopEnds : amqp' = start_consuming_ends(amqp, cause)
    /\ ShutdownDid("stop")

CloseConnection ==
    /\ Runs("shutdown")
    /\ amqp.state = "stopped"
    /\ amqp.closes < MaxCloses
    /\ amqp' = [close_connection(amqp) EXCEPT !.closes = @ + 1]
    /\ ShutdownDid("close_connection")

TestingDid(op) ==
    /\ last' = Did(op, "", FALSE, Cur)
    /\ UNCHANGED <<azure, upl, amqp, proc, creds, service, mail, conc, files, store, dep, obs>>

RunJob ==
    /\ Runs("testing")
    /\ testjob.pc = "idle"
    /\ \E test_regions \in TestRegions, known \in SUBSET Regions :
          testjob' = run_job_begin(test_regions, known)
    /\ TestingDid("_run_job")

RunJobStartWorker ==
    /\ Runs("testing")
    /\ testjob.pc = "loop"
    /\ testjob' = run_job_start_worker(testjob)
    /\ TestingDid("thread_start")

IpaTest ==
    /\ Runs("testing")
    /\ \E region \in testjob.running, outcome \in {SUCCESS, FAILED, EXCEPTION, "died"} :
          testjob' = ipa_test(testjob, region, outcome)
    /\ TestingDid("ipa_test")

RunJobJoin ==
    /\ Runs("testing")
    /\ testjob.pc = "join"
    /\ run_job_join(testjob).pc = "joined"
    /\ testjob' = run_job_join(testjob)
    /\ TestingDid("join")

RunJobStatus ==
    /\ Runs("testing")
    /\ testjob.pc = "joined"
    /\ testjob' = run_job_status(testjob)
    /\ TestingDid("status")

CompletionCallback ==
    /\ Runs("testing")
    /\ testjob.pc \in {"returned", "raised"}
    /\ testjob' = completion_callback(testjob)
    /\ TestingDid("completion_callback")

UploadDid(op) ==
    /\ last' = Did(op, "", FALSE, Cur)
    /\ UNCHANGED <<azure, testjob, amqp, proc, creds, service, mail, conc, files, store, dep, obs>>

ObsJobData ==
    /\ Runs("uploader")
    /\ obs_listener_queue \in upl.queues
    /\ \E image \in {"image", "image2"} : upl' = _obs_job_data(upl, image)
    /\ UploadDid("_obs_job_data")

CredentialsJobData ==
    /\ Runs("uploader")
    /\ \E token \in {"abc", "xyz"} :
          /\ upl.credentials_token # token
          /\ upl' = _credentials_job_data(upl, token)
    /\ UploadDid("_credentials_job_data")

ConsumingTimeout ==
    /\ Runs("uploader")
    /\ ~upl.consuming_timeout_reached
    /\ upl' = _consuming_timeout(upl)
    /\ UploadDid("_consuming_timeout")

Upload ==
    /\ Runs("uploader")
    /\ upl.pc \in {"idle", "waiting"}
    /\ upl.sleeps < MaxSleeps \/ upl.consuming_timeout_reached
          \/ (upl.system_image_file # None /\ upl.credentials_token # None)
    /\ upl' = upload(upl)
    /\ UploadDid("upload")

AzureDid(op) ==
    /\ last' = Did(op, "", FALSE, Cur)
    /\ UNCHANGED <<upl, testjob, amqp, proc, creds, service, mail, conc, files, store, dep, obs>>

AzurePostInit ==
    /\ Runs("azure")
    /\ azure.state = "none"
    /\ \E regions \in ReplicationSourceRegions, cleanup_images \in {<<>>, <<TRUE>>, <<FALSE>>} :
          azure' = AzureReplicationJob_post_init(regions, cleanup_images)
    /\ AzureDid("post_init")

AzureRunJob ==
    /\ Runs("azure")
    /\ azure.state = "new"
    /\ \E accounts \in SUBSET AzureRegions,
          outcomes \in [1..Len(azure.replication_source_regions) -> AzureOutcomes] :
          azure' = AzureReplicationJob_run_job(azure, accounts, outcomes)
    /\ AzureDid("_run_job")

(***************************************************************************)
(* The consumer thread and the worker thread, statement by statement.      *)
(***************************************************************************)
ConcDid(op) ==
    /\ last' = Did(op, "", FALSE, Cur)
    /\ UNCHANGED <<azure, upl, testjob, amqp, proc, creds, service, mail, files, store, dep, obs>>

\* The consumer thread takes a job document and runs _add_job.
HandlerAddJob ==
    /\ Runs("threads")
    /\ conc.handler = "idle"
    /\ \E utctime \in {"now", "always"} : conc' = add_job_check(conc, utctime)
    /\ ConcDid("add_job_check")

HandlerCreateJob ==
    /\ Runs("threads")
    /\ conc.handler \in {"add_now", "add_always"}
    /\ conc' = create_job_insert(conc)
    /\ ConcDid("create_job_insert")

\* The consumer thread takes a testing result that reports a failure.
HandlerCleanupJob ==
    /\ Runs("threads")
    /\ conc.handler = "idle"
    /\ conc' = validate_listener_msg_get(conc)
    /\ ConcDid("validate_listener_msg_get")

\* The consumer thread runs the next statement of _delete_job; a KeyError
\* ends start_consuming().
HandlerDeleteJob ==
    /\ Runs("threads")
    /\ conc.handler \in InDeleteJob
    /\ LET pc == delete_job_step(conc.handler, conc.table)
       IN  conc' = [conc EXCEPT !.handler = pc,
                                !.table = IF conc.handler = "del_looked" /\ pc = "idle"
                                          THEN "" ELSE @]
    /\ ConcDid("handler_delete_job")

\* The worker thread starts the job function for the queued job
\* (_replicate_image: job = self.jobs[job_id]) and ends it.
WorkerRun ==
    /\ Runs("threads")
    /\ conc.table # ""
    /\ ~conc.running /\ ~conc.event /\ conc.callback = "idle"
    /\ conc' = [conc EXCEPT !.running = TRUE]
    /\ ConcDid("worker_run")

WorkerDone ==
    /\ Runs("threads")
    /\ conc.running
    /\ conc' = [conc EXCEPT !.running = FALSE, !.event = TRUE]
    /\ ConcDid("worker_done")

\* The worker thread dispatches the completion event to the callback.
CallbackLookup ==
    /\ Runs("threads")
    /\ conc.event
    /\ conc.callback = "idle"
    /\ conc' = process_result_lookup(conc)
    /\ ConcDid("process_result_lookup")

\* The worker thread runs the next statement of the callback; a KeyError
\* is caught by the dispatch of the event.
CallbackDeleteJob ==
    /\ Runs("threads")
    /\ conc.callback \in InDeleteJob
    /\ LET pc == IF conc.callback = "got" /\ ~process_result_once(conc)
                 THEN "idle"
                 ELSE delete_job_step(conc.callback, conc.table)
       IN  conc' = [conc EXCEPT !.callback = IF pc = "KeyError" THEN "idle" ELSE pc,
                                !.table = IF conc.callback = "del_looked" /\ pc = "idle"
                                          THEN "" ELSE @]
    /\ ConcDid("callback_delete_job")

Next ==
    \/ AzurePostInit
    \/ AzureRunJob
    \/ post_init
    \/ ServiceMessage
    \/ ListenerMessage
    \/ CredentialsResponse
    \/ BadCredentialsResponse
    \/ StartExecution
    \/ FinishExecution
    \/ ProcessResult
    \/ PersistJobConfig
    \/ RemoveFile
    \/ RestartJobs
    \/ CreateDeprecationJob
    \/ DeprecateImage
    \/ CreateWatchdog
    \/ StartWatchdog
    \/ StopWatchdog
    \/ FireTrigger
    \/ JobSubmitEvent
    \/ PassLock
    \/ PassLookup
    \/ PassCheck
    \/ PassUnlock
    \/ PassEnd
    \/ OtherLocks
    \/ OtherUnlocks
    \/ SendEmailNotification
    \/ EncryptCredentials
    \/ DecryptCredentials
    \/ Main
    \/ Start
    \/ StartConsumingEnds
    \/ CloseConnection
    \/ RunJob
    \/ RunJobStartWorker
    \/ IpaTest
    \/ RunJobJoin
    \/ RunJobStatus
    \/ CompletionCallback
    \/ ObsJobData
    \/ CredentialsJobData
    \/ ConsumingTimeout
    \/ Upload
    \/ HandlerAddJob
    \/ HandlerCreateJob
    \/ HandlerCleanupJob
    \/ HandlerDeleteJob
    \/ WorkerRun
    \/ WorkerDone
    \/ CallbackLookup
    \/ CallbackDeleteJob

Spec == Init /\ [][Next]_vars

(***************************************************************************)
(* The properties of the specification, stated on the model.               *)
(***************************************************************************)
Logged(log, level, msg) ==
    \E i \in 1..Len(log) : log[i].level = level /\ log[i].msg = msg

Queued == {i \in JobIds : jobs[i] # NoJob}

\* C1: single-flight.  For every job id, whatever the interleaving of
\* listener messages, credentials responses, duplicate submissions and
\* trigger firings, at most one execution of the job is in flight at any
\* instant: the executor holds at most one instance per job id, and the
\* watchdog's job function runs at most once at a time.
C1_SingleFlight ==
    /\ \A id \in JobIds : Len(exec[id]) <= 1
    /\ Len(obs.passes) <= 1

\* An interval trigger fired while the previous pass was still running: the
\* firing was skipped and the one pass is still in flight.
C1_Witness ==
    /\ last.op = "fire_trigger"
    /\ Logged(last.log, "warning", "execution skipped")
    /\ obs.job_nonstop
    /\ Len(obs.passes) = 1

\* C2: iteration_count of a job starts at 0, is incremented exactly once by
\* every execution pass (whether the pass returns or raises), so that after
\* N passes it equals N, and it never decreases.
C2_IterationCount ==
    /\ [](\A id \in JobIds :
            dep[id] # NoDeprecationJob => dep[id].iteration_count = dep[id].passes)
    /\ [][\A id \in JobIds :
            /\ (dep[id] = NoDeprecationJob /\ dep'[id] # NoDeprecationJob)
                   => dep'[id].iteration_count = 0
            /\ dep'[id].iteration_count >= dep[id].iteration_count
            /\ (last'.op = "deprecate_image" /\ last'.id = id)
                   => dep'[id].iteration_count = dep[id].iteration_count + 1]_vars

\* A job after two passes, the last of which raised.
C2_Witness ==
    /\ last.op = "deprecate_image"
    /\ last.exception
    /\ dep[last.id].iteration_count = 2
    /\ dep[last.id].passes = 2

C3_Statuses == {PREPARED, "oneshot", RUNNING, SUCCESS, FAILED}

C3_Transitions ==
    {<<"", PREPARED>>, <<"", FAILED>>,
     <<PREPARED, "oneshot">>, <<PREPARED, RUNNING>>, <<PREPARED, FAILED>>,
     <<"oneshot", RUNNING>>, <<"oneshot", SUCCESS>>, <<"oneshot", FAILED>>,
     <<RUNNING, "oneshot">>, <<RUNNING, SUCCESS>>, <<RUNNING, FAILED>>,
     <<SUCCESS, "oneshot">>, <<SUCCESS, RUNNING>>, <<SUCCESS, FAILED>>,
     <<FAILED, "oneshot">>, <<FAILED, RUNNING>>}

C5_AsClaimed ==
    [][(last'.op = "process_result" /\ jobs[last'.id] # NoJob
            /\ jobs[last'.id].utctime # "always")
        => LET id == last'.id
           IN  /\ jobs'[id] = NoJob
               /\ id \notin bound'
               /\ jobs[id].job_file \notin DOMAIN files'
               /\ \E status \in {SUCCESS, FAILED, EXCEPTION} :
                     published' = published (+)
                         SetToBag({[id |-> id, status |-> status]})]_vars

\* C6: the completion of a pass never removes a recurring job from the job
\* table, never unbinds its routing key and never removes its snapshot; a
\* recurring job and its snapshot disappear only when _delete_job is called
\* for an upstream failure reported on the listener queue.  The watchdog of
\* a nonstop job never retires the job file.
C6_RecurringKept ==
    [][/\ \A id \in JobIds :
            (jobs[id] # NoJob /\ jobs[id].utctime = "always")
            => /\ jobs[id].job_file \in DOMAIN files
               /\ (last'.op = "process_result" /\ last'.id = id)
                    => /\ jobs'[id] # NoJob
                       /\ id \in bound'
                       /\ files' = files
               /\ (jobs'[id] = NoJob \/ jobs[id].job_file \notin DOMAIN files')
                    => /\ last'.op = "listener_message"
                       /\ last'.id = id
                       /\ Logged(last'.log, "warning", "failed upstream")
                       /\ Logged(last'.log, "info", "deleting job")
       /\ (obs.job_nonstop /\ obs.job_file) => (obs'.job_file /\ ~obs'.retired)]_vars

\* A recurring job completed its second pass with success and is still in
\* the job table with its snapshot.
C6_Witness ==
    /\ last.op = "process_result"
    /\ ~last.exception
    /\ jobs[last.id] # NoJob
    /\ jobs[last.id].utctime = "always"
    /\ jobs[last.id].status = SUCCESS
    /\ jobs[last.id].iteration_count = 2
    /\ jobs[last.id].job_file \in DOMAIN files

\* C7: a job document that lacks a required field creates no job, writes no
\* snapshot, creates no scheduler entry, publishes one invalid-config notice
\* and is acknowledged, in whatever state the service receives it.
C7_MissingField ==
    phase = "consuming" =>
        \A i \in JobIds,
           k \in {"id", "image_description", "provider", "utctime", "source_regions"} :
            LET message == Doc(TRUE, TRUE, Drop(ValidConfig(i, "now", "EC2"), k))
                s == _handle_service_message(Cur, message)
            IN  /\ s.jobs = jobs
                /\ s.files = files
                /\ s.sched = sched
                /\ s.bound = bound
                /\ s.notices = notices + 1
                /\ s.acked = 1

\* The service handled a document that lacks a required field.
C7_Witness ==
    /\ last.op = "service_message"
    /\ Logged(last.log, "error", "attribute required")
    /\ last.acked = 1
    /\ notices = 1
    /\ Queued = {}

C8_Invalid(d) ==
    \/ ~d.parsable
    \/ ~d.wrapper
    \/ \E k \in {"id", "image_description", "provider", "utctime", "source_regions"} :
          k \notin DOMAIN d.config
    \/ d.config["provider"] # "EC2"
    \/ ~JobCtorAccepts(d.config)

\* C8 as stated: every job document that is invalid (unparsable, without
\* the wrapper key, lacking a required field, for an unsupported provider,
\* or rejected by the job constructor) and so adds no job to the job table
\* causes an invalid-config notice.
C8_AsClaimed ==
    phase = "consuming" =>
        \A d \in Docs :
            LET s == _handle_service_message(Cur, d)
            IN  (C8_Invalid(d) /\ s.jobs = jobs) => s.notices = notices + 1

\* C9: after persist_job_config(c), restart_jobs calls the callback once
\* for every persisted configuration still in the job directory, with a
\* configuration equal to c as persisted (id and job_file included); on an
\* empty job directory it calls the callback zero times.
C9_RoundTrip ==
    last.op = "restart_jobs" =>
        /\ Len(store.calls) = Cardinality(DOMAIN store.written)
        /\ {store.calls[i] : i \in 1..Len(store.calls)}
               = {store.written[f] : f \in DOMAIN store.written}
        /\ \A i \in 1..Len(store.calls) :
               /\ "id" \in DOMAIN store.calls[i]
               /\ "job_file" \in DOMAIN store.calls[i]
               /\ store.calls[i]["job_file"]
                      = job_file_name(MashService_job_directory, store.calls[i]["id"])

\* Two configurations were persisted and restart_jobs handed both to the
\* callback.
C9_Witness ==
    /\ last.op = "restart_jobs"
    /\ Len(store.calls) = 2
    /\ \E i \in 1..2 : "bogus" \in DOMAIN store.calls[i]

\* C10 as stated: with N snapshots on disk at startup, the replay of
\* post_init leaves exactly N jobs in the job table and writes no new
\* snapshot file.
C10_AsClaimed ==
    [][last'.op = "post_init"
        => /\ Cardinality({i \in JobIds : jobs'[i] # NoJob})
                  = Cardinality(listdir(files, BaseService_job_directory))
           /\ DOMAIN files' = DOMAIN files]_vars

\* C11 as stated: persist_job_config stores the snapshot of job id J in the
\* file '<job directory>job-J.json', the job directory being the directory
\* Defaults.get_job_directory(service_exchange) returns: when the service
\* accepts a job document, the job's job_file is that path and that file,
\* and no other, is added to the file system.
C11_AsClaimed ==
    [][\A id \in JobIds :
          (last'.op = "service_message" /\ jobs[id] = NoJob /\ jobs'[id] # NoJob)
          => /\ jobs'[id].job_file = job_file_name(JobDirectory, id)
             /\ DOMAIN files' = DOMAIN files \cup {job_file_name(JobDirectory, id)}]_vars

\* C12: _should_notify(email, type, utctime, status, last_service) is true
\* exactly when the email is set and (the status is not success, or the
\* type is periodic and utctime is not always, or last_service is this
\* service and utctime is not always), for every combination of inputs: it
\* is false whenever the email is unset and true for every status other
\* than success when the email is set.
C12_ShouldNotify ==
    last.op = "send_email_notification" =>
        /\ mail.notify =
              (/\ Truthy(mail.email)
               /\ \/ mail.status # SUCCESS
                  \/ (mail.type = "periodic" /\ mail.utctime # "always")
                  \/ (mail.last_service = service_exchange /\ mail.utctime # "always"))
        /\ ~Truthy(mail.email) => ~mail.notify
        /\ (Truthy(mail.email) /\ mail.status # SUCCESS) => mail.notify

\* A successful single job of a recurring schedule that ended in this
\* service, with an email set: no notification.
C12_Witness ==
    /\ last.op = "send_email_notification"
    /\ mail.email = "a@b"
    /\ mail.status = SUCCESS
    /\ mail.type = "single"
    /\ mail.utctime = "always"
    /\ mail.last_service = service_exchange
    /\ ~mail.notify

\* C13 as stated: the mutations of the job table by the message handlers
\* and by the completion callback are serialized: in no reachable state are
\* a message handler and the completion callback both between their first
\* read of the job table and their last read or mutation of it.
C13_AsClaimed ==
    ~(/\ conc.handler \in InDeleteJob \cup {"add_now", "add_always"}
      /\ conc.callback \in InDeleteJob)

\* C14 as stated: every listener message delivered to the service is
\* acknowledged exactly once: at once when it is rejected, otherwise it is
\* retained on the job as listener_msg until the execution it triggered has
\* been processed.  So no message is acknowledged twice, and a message that
\* is not acknowledged yet is the listener_msg of a job of the job table
\* (a handle that no job holds can never be acknowledged), also when a
\* second listener message for the job arrives before the first one was
\* acknowledged.
C14_AsClaimed ==
    \A m \in 1..nMsgs :
        /\ acks[m] <= 1
        /\ acks[m] = 0 => \E id \in JobIds : jobs[id] # NoJob /\ jobs[id].listener_msg = m

Snapshots == {i \in JobIds : job_file_name(BaseService_job_directory, i) \in DOMAIN files}

C17_SkippedNotQueued ==
    /\ [][(obs'.fired = obs.fired + 1 /\ obs.job_nonstop /\ Len(obs.passes) > 0)
            => /\ obs'.passes = obs.passes
               /\ obs'.submit_events = obs.submit_events
               /\ obs'.skipped = obs.skipped + 1]_vars
    /\ [][Len(obs'.passes) > Len(obs.passes)
            => /\ obs'.fired = obs.fired + 1
               /\ obs.passes = <<>>
               /\ obs'.skipped = obs.skipped]_vars
    /\ [](obs.skipped > 0 => obs.job_nonstop)

\* A firing of the interval trigger was skipped and the pass that was
\* running then has ended: no pass is running, the skipped firing was not
\* executed.
C17_Witness ==
    /\ last.op = "pass_end"
    /\ obs.job_nonstop
    /\ obs.entry
    /\ obs.skipped = 1
    /\ obs.fired = 2
    /\ obs.passes = <<>>

PassStarts == obs.passes # <<>> /\ obs.passes[1].pc = "start" /\ obs'.passes # obs.passes

\* C18 as stated: a nonstop job whose pass ended in success or failed is
\* run again on the next trigger and its status goes back to running: the
\* pass the trigger starts sets the status running.
C18_AsClaimed ==
    [][(/\ obs.job_nonstop
        /\ obs.fired >= 2 /\ obs.skipped = 0
        /\ obs.job_status \in {SUCCESS, FAILED}
        /\ PassStarts)
        => obs'.job_status = RUNNING]_vars

\* C18, amended: a nonstop job whose pass ended, in success or in failed,
\* is run again on the next trigger: a firing that finds no pass running
\* starts a pass and the scheduler entry stays.  The pass sets the status
\* running when it holds the lock of the package; when locking fails it
\* sets failed and ends, and the job is run again on the next trigger all
\* the same.  Nothing but stop_watchdog removes the entry of a nonstop job:
\* there is no limit on the number of passes.
C18_Amended ==
    /\ [][(obs.job_nonstop /\ obs'.fired = obs.fired + 1 /\ obs.passes = <<>>)
            => /\ Len(obs'.passes) = 1
               /\ obs'.passes[1].pc = "start"
               /\ obs'.entry]_vars
    /\ [][(obs.job_nonstop /\ PassStarts)
            => \/ /\ obs'.job_status = RUNNING
                  /\ obs'.passes[1].pc = "locked"
               \/ /\ obs'.job_status = FAILED
                  /\ "lock failed" \in obs'.errors
                  /\ obs'.passes = <<>>
                  /\ obs'.entry = obs.entry]_vars
    /\ [][(obs.job_nonstop /\ obs.entry /\ ~obs'.entry)
            => last'.op = "stop_watchdog"]_vars

\* The second pass of a nonstop job whose first pass ended in success could
\* not lock the package: the status is failed, the entry is still there.
C18_Witness ==
    /\ last.op = "pass_lock"
    /\ last.exception
    /\ obs.job_nonstop
    /\ obs.fired = 2
    /\ obs.skipped = 0
    /\ obs.packages_checksum \in {"c1", "c2"}
    /\ obs.job_status = FAILED
    /\ obs.passes = <<>>
    /\ obs.entry

\* C19 as stated: run-to-completion.  When a deletion of job J is processed
\* while an execution of J is in flight, the execution is not cancelled and
\* its completion callback runs without fault: whenever
\* _process_replication_result runs for a job id, the id is in the job
\* table and the callback raises nothing.
C19_AsClaimed ==
    [][last'.op = "process_result"
        => /\ jobs[last'.id] # NoJob
           /\ last'.fault = ""]_vars

\* C20: submitting to the scheduler a job id that is already scheduled is a
\* benign duplicate: _schedule_job raises nothing, logs a warning and
\* leaves the scheduler entry and the job table as they are, in whatever
\* state of the service; and the entry is executed only once: the step that
\* starts an execution for it removes it and starts one execution.
C20_BenignDuplicate ==
    /\ [](\A id \in sched :
            LET s == _schedule_job(Cur, id)
            IN  /\ s.fault = ""
                /\ s.log = <<LogRec("warning", "already running", 0)>>
                /\ s.sched = sched
                /\ s.jobs = jobs
                /\ s.exec = exec)
    /\ [][(last'.op \in {"listener_message", "credentials_response"}
             /\ Logged(last'.log, "warning", "already running"))
            => /\ last'.fault = ""
               /\ phase' = phase
               /\ sched' = sched
               /\ exec' = exec
               /\ Queued' = Queued]_vars
    /\ [][\A id \in JobIds :
            Len(exec'[id]) > Len(exec[id])
            => /\ id \in sched
               /\ id \notin sched'
               /\ Len(exec'[id]) = Len(exec[id]) + 1]_vars

\* A second credentials response for a job that is already scheduled: the
\* submission was refused with a warning and the entry is still there.
C20_Witness ==
    /\ last.op = "credentials_response"
    /\ Logged(last.log, "warning", "already running")
    /\ last.fault = ""
    /\ last.acked = 1
    /\ last.id \in sched
    /\ exec[last.id] = <<>>

InvalidResponseLogged(log) ==
    \/ Logged(log, "error", "invalid credentials response token")
    \/ Logged(log, "error", "credentials key must be in credentials message")

\* C21 as stated: a credentials response whose token is malformed, fails the
\* validation of its signature, issuer or audience, or lacks the
\* 'credentials' key is logged as an error and is otherwise a no-op: the
\* service does not crash, no job's credentials are set, no execution is
\* scheduled and no request is issued again.
C21_AsClaimed ==
    [][(last'.op = "credentials_response" /\ InvalidResponseLogged(last'.log))
        => /\ last'.fault = ""
           /\ phase' = phase
           /\ jobs' = jobs
           /\ sched' = sched
           /\ credReq' = credReq]_vars

Tokens == InvalidTokens \cup {credentials_response(get_credential_request(i)) : i \in JobIds}

\* C22: direction of the credentials protocol.  The request for job J of
\* service S carries sub = 'credentials_request', id = J, iss = S and
\* aud = 'credentials' and is published on the exchange 'credentials' with
\* the routing key 'request.S'.  The service accepts a token as a response
\* (sets credentials, schedules, ends without fault) only when the token
\* validates with issuer 'credentials' and audience S: a token of the
\* request direction is never accepted.
C22_Direction ==
    phase = "consuming" =>
        /\ \A id \in JobIds :
              LET m == credentials_request_message(id)
              IN  /\ m.exchange = "credentials"
                  /\ m.routing_key = "request.replication"
                  /\ m.body.sub = "credentials_request"
                  /\ m.body.id = id
                  /\ m.body.iss = "replication"
                  /\ m.body.aud = "credentials"
        /\ \A token \in Tokens :
              LET s == credentials_message(Cur, token)
              IN  (s.fault = "" \/ s.jobs # jobs \/ s.sched # sched)
                  => /\ token.iss = "credentials"
                     /\ token.aud = "replication"
                     /\ token.secret = jwt_secret
        /\ \A id \in JobIds :
              LET s == credentials_message(Cur, get_credential_request(id))
              IN  /\ s.jobs = jobs
                  /\ s.sched = sched
                  /\ Logged(s.log, "error", "invalid credentials response token")

\* A request was published for a queued job and the response to it was
\* accepted: the job has its credentials and is scheduled; a token of the
\* request direction would be refused in this state.
C22_Witness ==
    /\ phase = "consuming"
    /\ last.op = "credentials_response"
    /\ last.fault = ""
    /\ last.log = <<>>
    /\ jobs[last.id] # NoJob
    /\ jobs[last.id].credentials
    /\ last.id \in sched
    /\ credentials_message(Cur, get_credential_request(last.id)).fault = "TypeError"

Range(seq) == {seq[i] : i \in 1..Len(seq)}

\* C23: key-ring round trip.  Credentials encrypted with the first key K1 of
\* a key ring are decrypted to the original credentials by every key ring
\* that holds K1 at any position; decryption with a key ring that does not
\* hold K1 fails with an error (InvalidToken) and returns no payload.
C23_KeyRing ==
    creds.op = "decrypt" =>
        IF creds.ring[1] \in Range(creds.decrypt_ring)
        THEN /\ creds.result.error = ""
             /\ creds.result.payload = creds.payload
        ELSE /\ creds.result.error = "InvalidToken"
             /\ creds.result.payload = None

\* Credentials encrypted with the ring [K1] were decrypted with a ring that
\* holds another key first and K1 after it.
C23_Witness ==
    /\ creds.op = "decrypt"
    /\ Len(creds.decrypt_ring) > 1
    /\ creds.decrypt_ring[1] # creds.ring[1]
    /\ creds.ring[1] \in Range(creds.decrypt_ring)
    /\ creds.result.payload = creds.payload

\* C24: removing a snapshot is idempotent.  remove_file on a path that does
\* not exist, or whose removal the operating system refuses, raises nothing
\* and leaves the job store unchanged; where the removal succeeds exactly
\* that file is gone; remove_file applied twice leaves the job store as
\* remove_file applied once does.
C24_Idempotent ==
    /\ last.op = "remove_file" => last.fault = ""
    /\ \A id \in JobIds, os_error \in BOOLEAN :
          LET path == job_file_name(MashService_job_directory, id)
              once == remove_file(files, path, os_error)
              twice == remove_file(once.files, path, os_error)
          IN  /\ once.fault = ""
              /\ twice.fault = ""
              /\ twice.files = once.files
              /\ (path \notin DOMAIN files \/ os_error) => once.files = files
              /\ (path \in DOMAIN files /\ ~os_error) => once.files = Drop(files, path)

\* remove_file was called on a snapshot the operating system refused to
\* remove: the snapshot is still there, next to another one, and a second
\* call on a path that does not exist raises nothing either.
C24_Witness ==
    /\ last.op = "remove_file"
    /\ last.exception
    /\ job_file_name(MashService_job_directory, last.id) \in DOMAIN files
    /\ \E id \in JobIds :
          /\ job_file_name(MashService_job_directory, id) \notin DOMAIN files
          /\ remove_file(files, job_file_name(MashService_job_directory, id), FALSE).files = files

TransportFails(smtp) ==
    \/ smtp.fails \in {"connect", "send"}
    \/ (smtp.fails = "login" /\ smtp.auth)

\* C25: send_email_notification hands an email to the mail transport if and
\* only if _should_notify returns true for the job; a failure of the
\* transport (connect, login or send) is logged as a warning and the email
\* is not sent; the call never raises and never changes the status of a job.
C25_DeliveryFailure ==
    /\ [](last.op = "send_email_notification" =>
            /\ mail.fault = ""
            /\ (mail.sent \/ mail.warned) <=> mail.notify
            /\ mail.warned <=> (mail.notify /\ TransportFails(mail.smtp))
            /\ mail.sent <=> (mail.notify /\ ~TransportFails(mail.smtp)))
    /\ [][last'.op = "send_email_notification" => jobs' = jobs]_vars

\* A notification that is due met a server that refused the login: a
\* warning was logged and nothing was raised.
C25_Witness ==
    /\ last.op = "send_email_notification"
    /\ mail.notify
    /\ mail.smtp.fails = "login"
    /\ mail.smtp.auth
    /\ mail.warned
    /\ ~mail.sent
    /\ mail.fault = ""

\* C26: a failure to connect to the broker while the service is constructed
\* surfaces as MashRabbitConnectionException, a MashException; main() logs
\* it as an error and the process ends with status 1.  A SystemExit raised
\* by the service is passed on: the process ends with the status of the
\* SystemExit (0 when it carries none) and nothing is logged.
C26_StartupFailure ==
    proc.state = "exited" =>
        /\ proc.broker = "down" =>
              /\ proc.raised = "MashRabbitConnectionException"
              /\ proc.raised \in MashExceptions
              /\ proc.exit_status = 1
              /\ Logged(proc.log, "error", "MashRabbitConnectionException")
              /\ ~proc.traceback
        /\ proc.raised = "SystemExit" =>
              /\ proc.code = <<>> => proc.exit_status = 0
              /\ proc.code # <<>> => proc.exit_status = proc.code[1]
              /\ proc.log = <<>>
              /\ ~proc.traceback

\* The broker was down when the service was constructed: main() logged the
\* connection exception and the process ended with status 1.
C26_Witness ==
    /\ proc.state = "exited"
    /\ proc.broker = "down"
    /\ proc.raised = "MashRabbitConnectionException"
    /\ proc.exit_status = 1

\* C27: shutdown.  Whenever the consuming loop of the service ends, by
\* KeyboardInterrupt or by any other exception, stop() runs: the scheduler
\* is shut down first, then message consumption is stopped, then the
\* channel and the connection are closed, each only when it is open;
\* calling close_connection again changes nothing.
C27_Shutdown ==
    /\ [][(amqp.state = "consuming" /\ amqp'.state # "consuming")
            => /\ amqp'.state = "stopped"
               /\ Len(amqp'.trace) >= 2
               /\ amqp'.trace[1] = "scheduler.shutdown"
               /\ amqp'.trace[2] = "channel.stop_consuming"
               /\ amqp'.scheduler = "shutdown"
               /\ ~amqp'.consuming
               /\ amqp'.channel = "closed"
               /\ amqp'.connection = "closed"
               /\ SubSeq(amqp'.trace, 3, Len(amqp'.trace))
                     = IF amqp'.raised = "AMQPConnectionError" THEN <<>>
                       ELSE <<"channel.close", "connection.close">>]_vars
    /\ [][amqp'.closes = amqp.closes + 1
            => amqp' = [amqp EXCEPT !.closes = @ + 1]]_vars
    /\ [](amqp.state = "stopped" => close_connection(amqp) = amqp)

\* The loop ended by KeyboardInterrupt, stop() closed the channel and the
\* connection, and close_connection was called once more.
C27_Witness ==
    /\ amqp.state = "stopped"
    /\ amqp.raised = ""
    /\ amqp.trace = <<"scheduler.shutdown", "channel.stop_consuming",
                      "channel.close", "connection.close">>
    /\ amqp.closes = 1

\* C28: removing a job from the scheduler is always safe.  stop_watchdog
\* and _delete_job raise nothing, whether the scheduler holds an entry of
\* the job or not; after the removal the scheduler holds no entry and no
\* execution starts without an entry; a removal when there is no entry
\* (never started, already run) changes nothing; the status the job
\* retained is the one it had before the removal.
C28_SafeRemoval ==
    /\ [](obs.state \in {"new", "started"} =>
            LET o == stop_watchdog(obs)
            IN  /\ o.raised = ""
                /\ ~o.entry
                /\ o.job_status = obs.job_status
                /\ o.passes = obs.passes
                /\ o.errors = obs.errors
                /\ ~obs.entry => o = obs)
    /\ [](obs.raised = "")
    /\ [][~obs.entry => /\ obs'.fired = obs.fired
                        /\ Len(obs'.passes) <= Len(obs.passes)]_vars
    /\ [](\A id \in JobIds :
            jobs[id] # NoJob =>
                LET s == _delete_job(Cur, id)
                IN  /\ s.fault = ""
                    /\ id \notin s.sched
                    /\ Len(s.exec[id]) = Len(exec[id]))
    /\ [][\A id \in JobIds :
            id \notin sched => Len(exec'[id]) <= Len(exec[id])]_vars

\* The watchdog of a one-time job was stopped after its job had run: the
\* scheduler had no entry left, nothing was raised and the status of the
\* pass is retained.
C28_Witness ==
    /\ last.op = "stop_watchdog"
    /\ obs.state = "started"
    /\ ~obs.job_nonstop
    /\ obs.fired = 1
    /\ obs.job_status \notin {"", PREPARED}
    /\ obs.raised = ""
    /\ job_remove(obs).error = "JobLookupError"

\* C29 as stated: the execution method starts one worker per test region
\* and returns only after every worker it started has ended; the status is
\* computed after the join, and no worker is running when the completion
\* callback reads the status.
C29_AsClaimed ==
    /\ testjob.pc \in {"joined", "returned"} =>
          /\ testjob.running = {}
          /\ testjob.started = {testjob.test_regions[i] : i \in 1..Len(testjob.test_regions)}
    /\ testjob.pc = "done" => testjob.running_at_read = {}

\* C30: UploadImage.upload() starts the cloud upload only after both the
\* image file and the credentials token have been received and the
\* consuming timeout has not been reached; while either is missing it keeps
\* waiting; once the timeout has been reached it returns None without
\* uploading; receiving the OBS job data deletes the listener queue
\* 'obs.listener_<job id>' of the job.
C30_UploadWaits ==
    /\ [][upl'.uploads # upl.uploads
            => /\ upl'.uploads = upl.uploads + 1
               /\ upl.system_image_file # None
               /\ upl.credentials_token # None
               /\ ~upl.consuming_timeout_reached
               /\ upl'.pc = "returned"]_vars
    /\ [][(/\ last'.op = "upload"
           /\ ~upl.consuming_timeout_reached
           /\ (upl.system_image_file = None \/ upl.credentials_token = None))
            => /\ upl'.pc = "waiting"
               /\ upl'.sleeps = upl.sleeps + 1
               /\ upl'.uploads = upl.uploads]_vars
    /\ [][(last'.op = "upload" /\ upl.consuming_timeout_reached)
            => /\ upl'.pc = "returned"
               /\ upl'.result = None
               /\ upl'.uploads = upl.uploads]_vars
    /\ [][upl'.system_image_file # upl.system_image_file
            => /\ "obs.listener_123" \in upl.queues
               /\ upl'.queues = upl.queues \ {"obs.listener_123"}]_vars
    /\ [](upl.uploads <= 1)

\* upload() slept while the credentials token was missing, the token came
\* and the upload was started; the listener queue of the job is deleted.
C30_Witness ==
    /\ upl.pc = "returned"
    /\ upl.uploads = 1
    /\ upl.sleeps > 0
    /\ ~upl.consuming_timeout_reached
    /\ "obs.listener_123" \notin upl.queues

(***************************************************************************)
(* C31                                                                     *)
(***************************************************************************)
AzureRemovals == {"delete_image", "delete_page_blob"}

\* C31: in AzureReplicationJob._run_job the ARM image and the page blob of
\* a source region are removed only when cleanup_images is true and only
\* after the copy of the blob of that same region to classic storage
\* returned without error; for a region whose copy failed nothing is
\* removed.
C31_RemoveAfterCopy ==
    azure.state = "ran" =>
        /\ \A k \in 1..Len(azure.calls) :
              azure.calls[k].op \in AzureRemovals =>
                 /\ azure.cleanup_images
                 /\ \E j \in 1..(k - 1) :
                       /\ azure.calls[j].op = "copy_blob_to_classic_storage"
                       /\ azure.calls[j].region = azure.calls[k].region
                       /\ ~azure.calls[j].raised
        /\ \A j, k \in 1..Len(azure.calls) :
              /\ azure.calls[j].op = "copy_blob_to_classic_storage"
              /\ azure.calls[j].raised
              /\ azure.calls[j].region = azure.calls[k].region
              => azure.calls[k].op \notin AzureRemovals

\* A job of two regions ran with cleanup_images: the copy of the first
\* region failed and nothing of it was removed, image and blob of the second
\* region were removed after its copy.
C31_Witness ==
    /\ azure.state = "ran"
    /\ azure.cleanup_images
    /\ Len(azure.calls) = 4
    /\ azure.calls[1].raised
    /\ azure.calls[3].op = "delete_image"
    /\ azure.calls[4].op = "delete_page_blob"
    /\ ~azure.calls[4].raised

(***************************************************************************)
(* C32                                                                     *)
(***************************************************************************)
\* C32 as claimed: an execution of a job is scheduled only when a listener
\* message with upstream status success was accepted for the job and the
\* credentials of the job are populated; a credentials response alone
\* never schedules an execution.
C32_AsClaimed ==
    [][\A id \in JobIds :
          (id \notin sched /\ id \in sched') =>
             /\ jobs'[id].listener_msg # 0
             /\ jobs'[id].credentials]_vars

(***************************************************************************)
(* C33                                                                     *)
(***************************************************************************)
\* C33 as claimed: a well-formed credentials response that names a job id
\* which is not in the job table does not crash the handler: no job
\* changes, nothing is scheduled, the service keeps consuming and the
\* message is acknowledged.
C33_AsClaimed ==
    [][(/\ last'.op = "credentials_response"
        /\ ~InvalidResponseLogged(last'.log)
        /\ last'.id \in JobIds
        /\ jobs[last'.id] = NoJob)
        => /\ last'.fault = ""
           /\ phase' = phase
           /\ jobs' = jobs
           /\ sched' = sched
           /\ last'.acked = 1]_vars

(***************************************************************************)
(* C34                                                                     *)
(***************************************************************************)
\* C34 as claimed: a listener message that _validate_listener_msg rejects
\* because a required key (image_id, image_name, source_region) is missing
\* leaves the job it names unchanged: no attribute of the job is modified.
C34_AsClaimed ==
    [][(/\ last'.op = "listener_message"
        /\ Logged(last'.log, "error", "attribute required")
        /\ last'.id \in JobIds)
        => jobs'[last'.id] = jobs[last'.id]]_vars

(***************************************************************************)
(* C35                                                                     *)
(***************************************************************************)
\* The job documents a duplicate submission can carry: live ones, and ones
\* replayed from a snapshot (with the job_file entry).
Submissions ==
    {ValidConfig(i, u, "EC2") : i \in JobIds, u \in {"now", "always"}}
    \cup {Put(ValidConfig(i, "now", "EC2"), "job_file",
              job_file_name(BaseService_job_directory, i)) : i \in JobIds}

\* C35: duplicate submission is idempotent.  For a job document, live or
\* replayed from a snapshot, whose id is already in the job table, _add_job
\* creates no second job, does not replace or modify the existing job,
\* writes no snapshot, binds no queue and schedules nothing: job table, job
\* store, bindings and scheduler are as before, a warning is logged; and a
\* delivered duplicate is acknowledged.
C35_Duplicate ==
    /\ [](\A c \in Submissions :
             jobs[c["id"]] # NoJob =>
                LET s == _add_job(Cur, c)
                IN  /\ s.jobs = jobs
                    /\ s.files = files
                    /\ s.bound = bound
                    /\ s.sched = sched
                    /\ s.fault = ""
                    /\ Logged(s.log, "warning", "job already queued"))
    /\ [][(/\ last'.op = "service_message"
           /\ Logged(last'.log, "warning", "job already queued"))
           => /\ jobs' = jobs
              /\ files' = files
              /\ bound' = bound
              /\ sched' = sched
              /\ last'.acked = 1]_vars

\* The document of a job that has accepted a listener message and waits
\* for its credentials was delivered again and was answered with the
\* warning.
C35_Witness ==
    /\ last.op = "service_message"
    /\ Logged(last.log, "warning", "job already queued")
    /\ \E i \in JobIds : jobs[i].listener_msg # 0 /\ credReq[i] > 0

(***************************************************************************)
(* C36                                                                     *)
(***************************************************************************)
\* C36 as claimed: when the completion callback runs for a pass of a job
\* that is not recurring, a result message is published whatever the status
\* of the pass; when it runs for a pass of a recurring job (utctime
\* 'always') that is in the job table, a result message is published if and
\* only if the pass ended with status success.
C36_AsClaimed ==
    [][\A id \in JobIds, exception \in BOOLEAN, u \in {"now", "always"} :
          (/\ last'.op = "process_result"
           /\ last'.id = id
           /\ events'[id][exception][u] < events[id][exception][u])
          => IF u = "now"
             THEN published' # published
             ELSE (jobs[id] # NoJob /\ jobs[id].utctime = "always")
                  => (published' # published
                        <=> (~exception /\ jobs[id].status = SUCCESS))]_vars

(***************************************************************************)
(* C37                                                                     *)
(***************************************************************************)
\* C37 as claimed: after a multi-region execution pass the status of the
\* job is success if and only if the operation succeeded in every
\* configured region (a region whose worker failed, raised or recorded no
\* result makes the status failed), and every configured region was
\* processed whatever happened in the others.  For the testing job the
\* operation of a region succeeded when its worker recorded the status
\* success; for the Azure replication job when no call made for the region
\* raised.
C37_AsClaimed ==
    /\ testjob.pc = "returned" =>
          /\ Range(testjob.test_regions) \subseteq testjob.started
          /\ testjob.status = SUCCESS
                <=> \A r \in Range(testjob.test_regions) :
                       \E i \in 1..Len(testjob.results) :
                          /\ testjob.results[i].region = r
                          /\ testjob.results[i].status = SUCCESS
    /\ (azure.state = "ran" /\ azure.raised = "") =>
          /\ azure.visited = Range(azure.replication_source_regions)
          /\ azure.status = SUCCESS
                <=> \A k \in 1..Len(azure.calls) : ~azure.calls[k].raised

(***************************************************************************)
(* C38                                                                     *)
(***************************************************************************)
\* C38 as claimed: when a pass of the OBS watchdog has ended, job_status is
\* success only if an image version was found and every condition of the
\* job evaluated to true; after every other outcome of the pass it is
\* failed, and it is never left at running.
C38_AsClaimed ==
    [][Len(obs'.passes) < Len(obs.passes)
        => /\ obs'.job_status \in {SUCCESS, FAILED}
           /\ obs'.job_status = SUCCESS => _image_conditions_complied(obs')]_vars

(***************************************************************************)
(* C39                                                                     *)
(***************************************************************************)
\* C39 as claimed: the OBS watchdog removes a package lock only if it set
\* that lock itself in the current pass; over any sequence of passes a lock
\* that someone else set is removed by no step of a pass (a step of a pass
\* moves the pass on, the unlock of another user does not).
C39_AsClaimed ==
    [][(obs.pkg_lock = "other" /\ obs'.pkg_lock = "none")
        => obs'.passes = obs.passes]_vars

(***************************************************************************)
(* C40                                                                     *)
(***************************************************************************)
\* C40 as claimed: every pass of the OBS watchdog that set the package lock
\* releases it before the pass ends, on every exit path of
\* _update_image_status, and a nonstop job releases it before the pass
\* blocks waiting for a new image.  Passes in which the build service
\* refused the unlock (the error 'unlock failed' is recorded) are left out.
C40_AsClaimed ==
    /\ [][(Len(obs'.passes) < Len(obs.passes) /\ "unlock failed" \notin obs'.errors)
           => obs'.pkg_lock # "watchdog"]_vars
    /\ [](\A i \in 1..Len(obs.passes) :
             (obs.passes[i].pc = "waiting" /\ "unlock failed" \notin obs.errors)
             => obs.pkg_lock # "watchdog")

====
